---- MODULE Spec2Model ----
(***************************************************************************)
(* The task repository of yarox/todomvc: src/src/repository.rs (TodoRepo)  *)
(* and src/src/models.rs (Todo, TodoListFilter, TodoToggleAction).         *)
(*                                                                         *)
(* The three counters are u32.  TLC's integers stop at 2^31 - 1, so a u32  *)
(* is kept as its two 16-bit halves <<hi, lo>>, value hi * 2^16 + lo: the  *)
(* width is exact and 2^32 - 1 is <<65535, 65535>>.  `+=` and `-=` on a    *)
(* u32 abort the call (panic) when the build has overflow checks (cargo's  *)
(* dev and test profiles) and wrap when it has none (the release profile); *)
(* the build is chosen in Init and both are explored.                      *)
(***************************************************************************)
EXTENDS Integers, Sequences, FiniteSets, TLC

\* ------------------------------------------------------------------ bounds

\* The number of ids Uuid::new_v4 can hand out, hence of tasks ever created.
MaxTodos == 2
\* Calls are explored while every counter is at most MaxTodos + MaxCounter, or
\* wrapped to within MaxCounter below zero.
MaxCounter == 1

Uuids == 1..MaxTodos
Texts == {"a", "b"}

\* ------------------------------------------------------------- u32 values

\* 2^16: a u32 is two halves below Half.
Half == 65536

u32(n) == <<n \div Half, n % Half>>

U32_ZERO == u32(0)

U32_MAX == <<Half - 1, Half - 1>>

\* a < b as unsigned 32-bit values
u32_lt(a, b) == a[1] < b[1] \/ (a[1] = b[1] /\ a[2] < b[2])

\* a + b does not fit in 32 bits
add_overflows(a, b) == a[1] + b[1] + ((a[2] + b[2]) \div Half) >= Half

\* a - b is below zero
sub_overflows(a, b) == u32_lt(a, b)

wrapping_add(a, b) ==
    LET lo == a[2] + b[2]
        hi == a[1] + b[1] + (lo \div Half)
    IN  <<hi % Half, lo % Half>>

wrapping_sub(a, b) ==
    LET borrow == IF a[2] < b[2] THEN 1 ELSE 0
        lo == a[2] - b[2] + borrow * Half
        hi == a[1] - b[1] - borrow + Half
    IN  <<hi % Half, lo % Half>>

\* ------------------------------------------------------ Option and Result

None == <<>>
Some(x) == <<x>>
is_some(o) == Len(o) = 1
unwrap(o) == o[1]

NotFound == "NotFound"
Ok(x) == [ok |-> TRUE, val |-> x]
Err(e) == [ok |-> FALSE, err |-> e]

\* ------------------------------------------------------------------ state

VARIABLES
    items,                \* TodoRepo.items: id -> Todo
    num_completed_items,  \* TodoRepo.num_completed_items
    num_active_items,     \* TodoRepo.num_active_items
    num_all_items,        \* TodoRepo.num_all_items
    overflow_checks,      \* the build: TRUE = `+=`/`-=` panic on overflow
    panicked,             \* a call has aborted; the repository is left as it was then
    issued,               \* the ids Uuid::new_v4 has returned so far
    now,                  \* the latest reading of SystemTime::now
    call,                 \* the call that has just ended (operation, arguments,
                          \* the repository it began in, its result), or Idle
    selected_filter,      \* AppState.selected_filter
    toggle_action,        \* AppState.toggle_action
    lock,                 \* the RwLock of SharedState: its writer and its readers
    pc                    \* each request task: the handler it runs, where it is
                          \* in it and the handler's locals

vars == <<items, num_completed_items, num_active_items, num_all_items,
          overflow_checks, panicked, issued, now, call,
          selected_filter, toggle_action, lock, pc>>

\* What only the handlers of the server touch.
server == <<selected_filter, toggle_action, lock, pc>>

Repo == [items |-> items,
         num_completed_items |-> num_completed_items,
         num_active_items |-> num_active_items,
         num_all_items |-> num_all_items]

\* TodoRepo::default(): an empty map and three zero counters
TodoRepo_default == [items |-> <<>>,
                     num_completed_items |-> U32_ZERO,
                     num_active_items |-> U32_ZERO,
                     num_all_items |-> U32_ZERO]


\* --------------------------------------------------- statements that may panic

\* A call in progress: the repository so far, and whether a statement panicked.
Running(self) == [self |-> self, panic |-> FALSE]

\* self.<field> += n
add_assign(st, field, n) ==
    IF st.panic THEN st
    ELSE IF overflow_checks /\ add_overflows(st.self[field], n)
         THEN [st EXCEPT !.panic = TRUE]
         ELSE [st EXCEPT !.self[field] = wrapping_add(@, n)]

\* A variant of `-=` that stops at zero (saturating_sub) instead of aborting or
\* wrapping.  C5 does not hold of it.
sub_assign_saturating(st, field, n) ==
    IF st.panic THEN st
    ELSE IF sub_overflows(st.self[field], n)
         THEN [st EXCEPT !.self[field] = U32_ZERO]
         ELSE [st EXCEPT !.self[field] = wrapping_sub(@, n)]

\* self.<field> -= n
sub_assign(st, field, n) ==
    IF st.panic THEN st
    ELSE IF overflow_checks /\ sub_overflows(st.self[field], n)
         THEN [st EXCEPT !.panic = TRUE]
         ELSE [st EXCEPT !.self[field] = wrapping_sub(@, n)]

\* What a call leaves behind: the repository, whether it aborted, and the
\* value it returned (None when it aborted).
Outcome(st, result) ==
    [self |-> st.self, panic |-> st.panic,
     result |-> IF st.panic THEN None ELSE Some(result)]

\* ------------------------------------------------------------------ models.rs

\* Todo::new(text); t is the reading of SystemTime::now(), id of Uuid::new_v4()
Todo_new(text, t, id) ==
    [is_completed |-> FALSE, created_at |-> t, text |-> text, id |-> id]

TodoListFilter == {"Completed", "Active", "All"}

TodoToggleAction == {"Uncheck", "Check"}

\* -------------------------------------------------------------- repository.rs

\* HashMap::insert: the entry under k is added or replaced
insert(m, k, v) == [x \in DOMAIN m \cup {k} |-> IF x = k THEN v ELSE m[x]]

\* HashMap::remove / retain: the entries whose key is in keep
restrict(m, keep) == [x \in DOMAIN m \cap keep |-> m[x]]

\* A variant of get that returns a task made anew from the stored text instead
\* of a clone of the stored task.  C22 does not hold of it.
get_remade(self, id) ==
    IF id \in DOMAIN self.items
    THEN Ok(Todo_new(self.items[id].text, self.items[id].created_at, id))
    ELSE Err(NotFound)

\* TodoRepo::get
get(self, id) ==
    IF id \in DOMAIN self.items THEN Ok(self.items[id]) ELSE Err(NotFound)

\* A variant of the filter closure with the arms of Completed and Active
\* exchanged.  C16 does not hold of it.
matches_exchanged(item, filter) ==
    CASE filter = "Completed" -> ~item.is_completed
      [] filter = "Active" -> item.is_completed
      [] filter = "All" -> TRUE

\* A variant of the filter closure whose Active arm keeps every task.  C17 does
\* not hold of it.
matches_active_any(item, filter) ==
    CASE filter = "Completed" -> item.is_completed
      [] filter = "Active" -> TRUE
      [] filter = "All" -> TRUE

\* the filter closure of TodoRepo::list
matches(item, filter) ==
    CASE filter = "Completed" -> item.is_completed
      [] filter = "Active" -> ~item.is_completed
      [] filter = "All" -> TRUE

\* The sequences without repetition over the keys in S.
Orderings(S) ==
    {q \in [1..Cardinality(S) -> S] : \A i, j \in 1..Cardinality(S) : q[i] = q[j] => i = j}

\* TodoRepo::list: the matching tasks, cloned, sorted by created_at descending.
\* The sort is stable and the map iterates in no fixed order, so tasks of
\* equal created_at may come in either order: list is the set of sequences
\* a call can return.
list(self, filter) ==
    LET keys == {k \in DOMAIN self.items : matches(self.items[k], filter)}
        sorted(q) == \A i, j \in 1..Len(q) :
                        i < j => self.items[q[i]].created_at >= self.items[q[j]].created_at
    IN  {[i \in 1..Cardinality(keys) |-> self.items[q[i]]] : q \in {o \in Orderings(keys) : sorted(o)}}

\* A variant of create that counts the task in num_all_items only.  C38 does
\* not hold of it.
create_counts_all_only(self, text, t, id) ==
    LET todo == Todo_new(text, t, id)
        s0 == Running([self EXCEPT !.items = insert(@, todo.id, todo)])
        s1 == add_assign(s0, "num_all_items", u32(1))
    IN  Outcome(s1, todo)

\* TodoRepo::create
create(self, text, t, id) ==
    LET todo == Todo_new(text, t, id)
        s0 == Running([self EXCEPT !.items = insert(@, todo.id, todo)])
        s1 == add_assign(s0, "num_active_items", u32(1))
        s2 == add_assign(s1, "num_all_items", u32(1))
    IN  Outcome(s2, todo)

\* A variant of delete that takes 1 from num_all_items before it looks the id
\* up.  C8 does not hold of it.
delete_counts_before_lookup(self, id) ==
    LET s0 == sub_assign(Running(self), "num_all_items", u32(1))
    IN  IF id \notin DOMAIN self.items THEN Outcome(s0, Err(NotFound))
        ELSE
        LET item == self.items[id]
            s1 == IF s0.panic THEN s0
                  ELSE [s0 EXCEPT !.self.items = restrict(@, DOMAIN @ \ {id})]
            s2 == IF item.is_completed
                  THEN sub_assign(s1, "num_completed_items", u32(1))
                  ELSE sub_assign(s1, "num_active_items", u32(1))
        IN  Outcome(s2, Ok("unit"))

\* A variant of delete that takes the removed task off the counter of the
\* other flag.  C32 does not hold of it.
delete_other_counter(self, id) ==
    IF id \notin DOMAIN self.items THEN Outcome(Running(self), Err(NotFound))
    ELSE
    LET item == self.items[id]
        s0 == Running([self EXCEPT !.items = restrict(@, DOMAIN @ \ {id})])
        s1 == IF item.is_completed
              THEN sub_assign(s0, "num_active_items", u32(1))
              ELSE sub_assign(s0, "num_completed_items", u32(1))
        s2 == sub_assign(s1, "num_all_items", u32(1))
    IN  Outcome(s2, Ok("unit"))

\* TodoRepo::delete
delete(self, id) ==
    IF id \notin DOMAIN self.items THEN Outcome(Running(self), Err(NotFound))
    ELSE
    LET item == self.items[id]
        s0 == Running([self EXCEPT !.items = restrict(@, DOMAIN @ \ {id})])
        s1 == IF item.is_completed
              THEN sub_assign(s0, "num_completed_items", u32(1))
              ELSE sub_assign(s0, "num_active_items", u32(1))
        s2 == sub_assign(s1, "num_all_items", u32(1))
    IN  Outcome(s2, Ok("unit"))

\* A variant of update that adjusts the counters only when the flag changes.
\* C4 does not hold of it.
update_if_changed(self, id, text, is_completed) ==
    IF id \notin DOMAIN self.items THEN Outcome(Running(self), Err(NotFound))
    ELSE
    LET s0 == Running(self)
        s1 == IF is_some(is_completed) /\ self.items[id].is_completed # unwrap(is_completed)
              THEN LET f == [s0 EXCEPT !.self.items[id].is_completed = unwrap(is_completed)]
                   IN  IF f.self.items[id].is_completed
                       THEN sub_assign(add_assign(f, "num_completed_items", u32(1)),
                                       "num_active_items", u32(1))
                       ELSE add_assign(sub_assign(f, "num_completed_items", u32(1)),
                                       "num_active_items", u32(1))
              ELSE s0
        s2 == IF is_some(text) /\ ~s1.panic
              THEN [s1 EXCEPT !.self.items[id].text = unwrap(text)]
              ELSE s1
    IN  Outcome(s2, Ok(s2.self.items[id]))

\* A variant of update that reads an omitted is_completed as false
\* (unwrap_or(false)).  C7 does not hold of it.
update_omitted_as_false(self, id, text, is_completed) ==
    IF id \notin DOMAIN self.items THEN Outcome(Running(self), Err(NotFound))
    ELSE
    LET v == IF is_some(is_completed) THEN unwrap(is_completed) ELSE FALSE
        f == [Running(self) EXCEPT !.self.items[id].is_completed = v]
        s1 == IF v
              THEN sub_assign(add_assign(f, "num_completed_items", u32(1)),
                              "num_active_items", u32(1))
              ELSE add_assign(sub_assign(f, "num_completed_items", u32(1)),
                              "num_active_items", u32(1))
        s2 == IF is_some(text) /\ ~s1.panic
              THEN [s1 EXCEPT !.self.items[id].text = unwrap(text)]
              ELSE s1
    IN  Outcome(s2, Ok(s2.self.items[id]))

\* A variant of update that gives the task it writes a new created_at (the
\* stamp of a task made now, one past the latest stamp stored).  C21 does not
\* hold of it.
update_restamps(self, id, text, is_completed) ==
    IF id \notin DOMAIN self.items THEN Outcome(Running(self), Err(NotFound))
    ELSE
    LET s0 == Running([self EXCEPT !.items[id].created_at = @ + 1])
        s1 == IF is_some(is_completed)
              THEN LET f == [s0 EXCEPT !.self.items[id].is_completed = unwrap(is_completed)]
                   IN  IF f.self.items[id].is_completed
                       THEN sub_assign(add_assign(f, "num_completed_items", u32(1)),
                                       "num_active_items", u32(1))
                       ELSE add_assign(sub_assign(f, "num_completed_items", u32(1)),
                                       "num_active_items", u32(1))
              ELSE s0
        s2 == IF is_some(text) /\ ~s1.panic
              THEN [s1 EXCEPT !.self.items[id].text = unwrap(text)]
              ELSE s1
    IN  Outcome(s2, Ok(s2.self.items[id]))

\* TodoRepo::update
update(self, id, text, is_completed) ==
    IF id \notin DOMAIN self.items THEN Outcome(Running(self), Err(NotFound))
    ELSE
    LET s0 == Running(self)
        s1 == IF is_some(is_completed)
              THEN LET f == [s0 EXCEPT !.self.items[id].is_completed = unwrap(is_completed)]
                   IN  IF f.self.items[id].is_completed
                       THEN sub_assign(add_assign(f, "num_completed_items", u32(1)),
                                       "num_active_items", u32(1))
                       ELSE add_assign(sub_assign(f, "num_completed_items", u32(1)),
                                       "num_active_items", u32(1))
              ELSE s0
        s2 == IF is_some(text) /\ ~s1.panic
              THEN [s1 EXCEPT !.self.items[id].text = unwrap(text)]
              ELSE s1
    IN  Outcome(s2, Ok(s2.self.items[id]))

\* A variant of delete_completed that keeps the completed tasks and removes the
\* others (the retain predicate without its negation).  C11 does not hold of it.
delete_completed_keeps_completed(self) ==
    LET s0 == Running([self EXCEPT
                  !.items = restrict(@, {k \in DOMAIN @ : @[k].is_completed})])
        s1 == sub_assign(s0, "num_all_items", s0.self.num_completed_items)
        s2 == IF s1.panic THEN s1 ELSE [s1 EXCEPT !.self.num_completed_items = U32_ZERO]
    IN  Outcome(s2, "unit")

\* A variant of delete_completed that takes the completed tasks from
\* num_active_items as well.  C19 does not hold of it.
delete_completed_takes_active(self) ==
    LET s0 == Running([self EXCEPT
                  !.items = restrict(@, {k \in DOMAIN @ : ~@[k].is_completed})])
        s1 == sub_assign(s0, "num_all_items", s0.self.num_completed_items)
        s2 == sub_assign(s1, "num_active_items", s1.self.num_completed_items)
        s3 == IF s2.panic THEN s2 ELSE [s2 EXCEPT !.self.num_completed_items = U32_ZERO]
    IN  Outcome(s3, "unit")

\* TodoRepo::delete_completed
delete_completed(self) ==
    LET s0 == Running([self EXCEPT
                  !.items = restrict(@, {k \in DOMAIN @ : ~@[k].is_completed})])
        s1 == sub_assign(s0, "num_all_items", s0.self.num_completed_items)
        s2 == IF s1.panic THEN s1 ELSE [s1 EXCEPT !.self.num_completed_items = U32_ZERO]
    IN  Outcome(s2, "unit")

\* A variant of toggle_completed that flips each task's flag (a toggle per item)
\* and exchanges the two counters.  C14 does not hold of it.
toggle_completed_per_item(self, action) ==
    LET s0 == [self EXCEPT !.num_completed_items = self.num_active_items,
                           !.num_active_items = self.num_completed_items]
        s1 == [s0 EXCEPT !.items = [k \in DOMAIN @ |-> [@[k] EXCEPT !.is_completed = ~@]]]
    IN  Outcome(Running(s1), "unit")

\* A variant of toggle_completed without the loop over items.values_mut(): it
\* overwrites the counters only.  C15 does not hold of it.
toggle_completed_counters_only(self, action) ==
    LET s0 == IF action = "Uncheck"
              THEN [self EXCEPT !.num_completed_items = U32_ZERO,
                                !.num_active_items = self.num_all_items]
              ELSE [self EXCEPT !.num_completed_items = self.num_all_items,
                                !.num_active_items = U32_ZERO]
    IN  Outcome(Running(s0), "unit")

\* A variant of toggle_completed that sets the flags and leaves the counters as
\* they are.  C34 does not hold of it.
toggle_completed_flags_only(self, action) ==
    LET is_completed == (action = "Check")
        s1 == [self EXCEPT !.items = [k \in DOMAIN @ |-> [@[k] EXCEPT !.is_completed = is_completed]]]
    IN  Outcome(Running(s1), "unit")

\* TodoRepo::toggle_completed
toggle_completed(self, action) ==
    LET is_completed == (action = "Check")
        s0 == IF action = "Uncheck"
              THEN [self EXCEPT !.num_completed_items = U32_ZERO,
                                !.num_active_items = self.num_all_items]
              ELSE [self EXCEPT !.num_completed_items = self.num_all_items,
                                !.num_active_items = U32_ZERO]
        s1 == [s0 EXCEPT !.items = [k \in DOMAIN @ |-> [@[k] EXCEPT !.is_completed = is_completed]]]
    IN  Outcome(Running(s1), "unit")


\* ---------------------------------------------------------------- the calls

\* A counter the exploration follows: see MaxCounter.
Near(c) ==
    \/ u32_lt(c, u32(MaxTodos + MaxCounter + 1))
    \/ u32_lt(wrapping_sub(U32_ZERO, c), u32(MaxCounter + 1))

Bounded(self) ==
    /\ Near(self.num_completed_items)
    /\ Near(self.num_active_items)
    /\ Near(self.num_all_items)

\* No call has ended that the caller still looks at.
Idle == [op |-> "idle"]

\* A caller may call when the previous call is done with and no call has aborted
\* (an abort ends the test or the process, or poisons the lock the server keeps
\* the repository behind: nothing calls the repository after it).
CanCall == ~panicked /\ call = Idle

\* The end of a call: the repository it leaves, whether it aborted, and the
\* record of the call (c: operation and arguments) with the repository it
\* began in and its result.
Commit(o, c) ==
    /\ Bounded(o.self)
    /\ items' = o.self.items
    /\ num_completed_items' = o.self.num_completed_items
    /\ num_active_items' = o.self.num_active_items
    /\ num_all_items' = o.self.num_all_items
    /\ panicked' = o.panic
    /\ call' = c @@ [pre |-> Repo, returned |-> ~o.panic, result |-> o.result]
    /\ UNCHANGED <<overflow_checks, server>>

\* AppState::default()
AppState_default == [selected_filter |-> "All",
                     toggle_action |-> "Check",
                     todo_repo |-> TodoRepo_default]

\* The request tasks the server runs at a time.
Threads == {1, 2}

\* RwLock::new: no writer, no reader
Unlocked == [writer |-> None, readers |-> {}]

\* A request task that runs no handler.
NoRequest == [at |-> "none"]

Init ==
    /\ items = TodoRepo_default.items
    /\ num_completed_items = TodoRepo_default.num_completed_items
    /\ num_active_items = TodoRepo_default.num_active_items
    /\ num_all_items = TodoRepo_default.num_all_items
    /\ overflow_checks \in BOOLEAN
    /\ panicked = FALSE
    /\ issued = {}
    /\ now = 0
    /\ call = Idle
    /\ selected_filter = AppState_default.selected_filter
    /\ toggle_action = AppState_default.toggle_action
    /\ lock = Unlocked
    /\ pc = [t \in Threads |-> NoRequest]

\* Uuid::new_v4(): an id not handed out before (the ids are numbered in the
\* order they are handed out)
new_v4 == CHOOSE i \in Uuids \ issued : \A j \in Uuids \ issued : i <= j

Get ==
    /\ CanCall
    /\ \E id \in Uuids :
          Commit(Outcome(Running(Repo), get(Repo, id)), [op |-> "get", id |-> id])
    /\ UNCHANGED <<issued, now>>

List ==
    /\ CanCall
    /\ \E filter \in TodoListFilter : \E todos \in list(Repo, filter) :
          Commit(Outcome(Running(Repo), todos), [op |-> "list", filter |-> filter])
    /\ UNCHANGED <<issued, now>>

\* SystemTime::now returns the latest reading or a later one.
Create ==
    /\ CanCall
    /\ issued # Uuids
    /\ \E text \in Texts, t \in {now, now + 1} :
          /\ Commit(create(Repo, text, t, new_v4), [op |-> "create", text |-> text])
          /\ issued' = issued \cup {new_v4}
          /\ now' = t

Delete ==
    /\ CanCall
    /\ \E id \in Uuids :
          Commit(delete(Repo, id), [op |-> "delete", id |-> id])
    /\ UNCHANGED <<issued, now>>

Update ==
    /\ CanCall
    /\ \E id \in Uuids,
          text \in {None} \cup {Some(x) : x \in Texts},
          is_completed \in {None, Some(TRUE), Some(FALSE)} :
          Commit(update(Repo, id, text, is_completed),
                 [op |-> "update", id |-> id, text |-> text, is_completed |-> is_completed])
    /\ UNCHANGED <<issued, now>>

DeleteCompleted ==
    /\ CanCall
    /\ Commit(delete_completed(Repo), [op |-> "delete_completed"])
    /\ UNCHANGED <<issued, now>>

ToggleCompleted ==
    /\ CanCall
    /\ \E action \in TodoToggleAction :
          Commit(toggle_completed(Repo, action), [op |-> "toggle_completed", action |-> action])
    /\ UNCHANGED <<issued, now>>

\* The caller is done with the result of a call that returned.
Return ==
    /\ ~panicked
    /\ call # Idle
    /\ call' = Idle
    /\ UNCHANGED <<items, num_completed_items, num_active_items, num_all_items,
                   overflow_checks, panicked, issued, now, server>>

Next ==
    \/ Get
    \/ List
    \/ Create
    \/ Delete
    \/ Update
    \/ DeleteCompleted
    \/ ToggleCompleted
    \/ Return

Spec == Init /\ [][Next]_vars

\* ------------------------------------- callers that only change the flag
\* The repository under callers whose update never passes the flag a task
\* already has: is_completed is left out, or the id is of no stored task
\* (there is no current flag, and update returns NotFound), or the value
\* differs from the stored one.

ChangesFlag(self, id, is_completed) ==
    IF ~is_some(is_completed) THEN TRUE
    ELSE IF id \notin DOMAIN self.items THEN TRUE
    ELSE unwrap(is_completed) # self.items[id].is_completed

UpdateChanging ==
    /\ CanCall
    /\ \E id \in Uuids,
          text \in {None} \cup {Some(x) : x \in Texts},
          is_completed \in {None, Some(TRUE), Some(FALSE)} :
          /\ ChangesFlag(Repo, id, is_completed)
          /\ Commit(update(Repo, id, text, is_completed),
                    [op |-> "update", id |-> id, text |-> text, is_completed |-> is_completed])
    /\ UNCHANGED <<issued, now>>

ChangingNext ==
    \/ Get
    \/ List
    \/ Create
    \/ Delete
    \/ UpdateChanging
    \/ DeleteCompleted
    \/ ToggleCompleted
    \/ Return

SpecChanging == Init /\ [][ChangingNext]_vars


\* ------------------------------------------------- the end-to-end scenario
\* One caller, from a new repository: create("a"), create("b"), create("c"),
\* update(b, None, Some(true)), list(Completed), delete_completed(),
\* list(All).  The clock readings of the three creates and the build are the
\* inputs.

\* the ids new_v4 gives to a, b and c
ScenarioIds == {1, 2, 3}

\* the texts of the three tasks, by id
ScenarioTexts == <<"a", "b", "c">>

ScenarioCreate ==
    /\ CanCall
    /\ issued # ScenarioIds
    /\ LET id == Cardinality(issued) + 1
       IN  \E t \in {now, now + 1} :
              /\ Commit(create(Repo, ScenarioTexts[id], t, id),
                        [op |-> "create", text |-> ScenarioTexts[id]])
              /\ issued' = issued \cup {id}
              /\ now' = t

ScenarioUpdate ==
    /\ CanCall
    /\ DOMAIN items = ScenarioIds
    /\ \A k \in DOMAIN items : ~items[k].is_completed
    /\ Commit(update(Repo, 2, None, Some(TRUE)),
              [op |-> "update", id |-> 2, text |-> None, is_completed |-> Some(TRUE)])
    /\ UNCHANGED <<issued, now>>

ScenarioListCompleted ==
    /\ CanCall
    /\ DOMAIN items = ScenarioIds
    /\ items[2].is_completed
    /\ \E todos \in list(Repo, "Completed") :
          Commit(Outcome(Running(Repo), todos), [op |-> "list", filter |-> "Completed"])
    /\ UNCHANGED <<issued, now>>

ScenarioDeleteCompleted ==
    /\ CanCall
    /\ DOMAIN items = ScenarioIds
    /\ items[2].is_completed
    /\ Commit(delete_completed(Repo), [op |-> "delete_completed"])
    /\ UNCHANGED <<issued, now>>

ScenarioListAll ==
    /\ CanCall
    /\ issued = ScenarioIds
    /\ DOMAIN items # ScenarioIds
    /\ \E todos \in list(Repo, "All") :
          Commit(Outcome(Running(Repo), todos), [op |-> "list", filter |-> "All"])
    /\ UNCHANGED <<issued, now>>

ScenarioNext ==
    \/ ScenarioCreate
    \/ ScenarioUpdate
    \/ ScenarioListCompleted
    \/ ScenarioDeleteCompleted
    \/ ScenarioListAll
    \/ Return

SpecScenario == Init /\ [][ScenarioNext]_vars

\* ------------------------------------------------------- lib.rs: the handlers
\* A handler is written in two parts, as its code runs them under the lock:
\* what it does to the AppState (its repository call and what it assigns), and
\* the response it then builds from the AppState.  The handler is the two in a
\* row.  A response that holds a listing is one of those list can return, so a
\* handler is the set of its possible outcomes.

\* The AppState behind the lock.
App == [selected_filter |-> selected_filter,
        toggle_action |-> toggle_action,
        todo_repo |-> Repo]

StatusCode_OK == "200 OK"
StatusCode_NOT_FOUND == "404 Not Found"

\* AppError::TodoRepo(inner), From<TodoRepoError> for AppError
AppError_TodoRepo(inner) == [TodoRepo |-> inner]

\* A variant of into_response that answers 200 with the error's message.  C23
\* does not hold of it.
into_response_ok(result) == StatusCode_OK

\* IntoResponse: the status of what a handler returned
into_response(result) ==
    IF result.ok THEN StatusCode_OK
    ELSE CASE result.err = AppError_TodoRepo(NotFound) -> StatusCode_NOT_FOUND

\* What a handler has done: the AppState it leaves, whether it aborted, and
\* what it returns (None when it aborted).
Handled(state, panic, result) ==
    [state |-> state, panic |-> panic, result |-> IF panic THEN None ELSE Some(result)]

\* The first part m of a handler followed by the building of one of the
\* responses, unless m aborted or returned an error.
Respond(m, responses) ==
    IF m.panic \/ ~unwrap(m.result).ok THEN {m}
    ELSE {[m EXCEPT !.result = Some(Ok(r))] : r \in responses}

\* A variant of list_todos' first statement that leaves selected_filter as it
\* is.  C31 does not hold of it.
list_todos_store_keeps(state, filter) == state

\* list_todos, line 167: shared_state.write().unwrap().selected_filter = filter
list_todos_store(state, filter) == [state EXCEPT !.selected_filter = filter]

\* list_todos, line 170: let items = state.todo_repo.list(&filter)
list_todos_listing(state, filter) == list(state.todo_repo, filter)

\* list_todos, lines 172-180: the ListTodosResponse, with the counters as they
\* are read after the listing
list_todos_counters(state, todos) ==
    [num_completed_items |-> state.todo_repo.num_completed_items,
     num_active_items |-> state.todo_repo.num_active_items,
     num_all_items |-> state.todo_repo.num_all_items,
     is_disabled_delete |-> state.todo_repo.num_completed_items = U32_ZERO,
     is_disabled_toggle |-> state.todo_repo.num_all_items = U32_ZERO,
     action |-> state.toggle_action,
     items |-> todos]

\* list_todos, lines 169-180: the listing and the ListTodosResponse from one
\* state
list_todos_response(state, filter) ==
    {list_todos_counters(state, todos) : todos \in list_todos_listing(state, filter)}

list_todos(state, filter) ==
    LET s0 == list_todos_store(state, filter)
    IN  Respond(Handled(s0, FALSE, Ok("unit")), list_todos_response(s0, filter))

\* create_todo, lines 203-212
create_todo_locked(state, text, t, id) ==
    LET o == create(state.todo_repo, text, t, id)
        s0 == [state EXCEPT !.todo_repo = o.self]
        item == IF s0.selected_filter = "Completed" THEN None ELSE Some(unwrap(o.result))
    IN  IF o.panic THEN Handled(s0, TRUE, None)
        ELSE Handled([s0 EXCEPT !.toggle_action = "Check"], FALSE, Ok(item))

\* create_todo, lines 214-221: the CreateTodoResponse
create_todo_response(state, item) ==
    {[num_completed_items |-> state.todo_repo.num_completed_items,
      num_active_items |-> state.todo_repo.num_active_items,
      num_all_items |-> state.todo_repo.num_all_items,
      is_disabled_toggle |-> FALSE,
      action |-> state.toggle_action,
      item |-> item]}

create_todo(state, text, t, id) ==
    LET m == create_todo_locked(state, text, t, id)
    IN  Respond(m, create_todo_response(m.state, unwrap(m.result).val))

\* A variant of toggle_completed_todos' first part that stores the request's
\* action as toggle_action instead of its opposite.  C27 does not hold of it.
toggle_completed_todos_locked_same_action(state, action) ==
    LET s0 == [state EXCEPT !.toggle_action = action]
        o == toggle_completed(s0.todo_repo, action)
    IN  Handled([s0 EXCEPT !.todo_repo = o.self], o.panic, Ok("unit"))

\* toggle_completed_todos, lines 245-252
toggle_completed_todos_locked(state, action) ==
    LET s0 == [state EXCEPT !.toggle_action = CASE action = "Uncheck" -> "Check"
                                                [] action = "Check" -> "Uncheck"]
        o == toggle_completed(s0.todo_repo, action)
    IN  Handled([s0 EXCEPT !.todo_repo = o.self], o.panic, Ok("unit"))

\* toggle_completed_todos, lines 253-263: the listing and the
\* ToggleCompletedTodosResponse
toggle_completed_todos_response(state) ==
    {[num_completed_items |-> state.todo_repo.num_completed_items,
      num_active_items |-> state.todo_repo.num_active_items,
      num_all_items |-> state.todo_repo.num_all_items,
      is_disabled_delete |-> state.todo_repo.num_completed_items = U32_ZERO,
      is_disabled_toggle |-> state.todo_repo.num_all_items = U32_ZERO,
      action |-> state.toggle_action,
      items |-> todos] : todos \in list(state.todo_repo, state.selected_filter)}

toggle_completed_todos(state, action) ==
    LET m == toggle_completed_todos_locked(state, action)
    IN  Respond(m, toggle_completed_todos_response(m.state))

\* A variant of delete_completed_todos' first part that leaves toggle_action as
\* it is.  C28 does not hold of it.
delete_completed_todos_locked_keeps_action(state) ==
    LET o == delete_completed(state.todo_repo)
    IN  Handled([state EXCEPT !.todo_repo = o.self], o.panic, Ok("unit"))

\* delete_completed_todos, lines 281-284
delete_completed_todos_locked(state) ==
    LET s0 == [state EXCEPT !.toggle_action = "Check"]
        o == delete_completed(s0.todo_repo)
    IN  Handled([s0 EXCEPT !.todo_repo = o.self], o.panic, Ok("unit"))

\* delete_completed_todos, lines 286-296: the listing and the
\* DeleteCompletedTodosResponse
delete_completed_todos_response(state) ==
    {[num_completed_items |-> state.todo_repo.num_completed_items,
      num_active_items |-> state.todo_repo.num_active_items,
      num_all_items |-> state.todo_repo.num_all_items,
      is_disabled_delete |-> TRUE,
      is_disabled_toggle |-> state.todo_repo.num_all_items = U32_ZERO,
      action |-> state.toggle_action,
      items |-> todos] : todos \in list(state.todo_repo, state.selected_filter)}

delete_completed_todos(state) ==
    LET m == delete_completed_todos_locked(state)
    IN  Respond(m, delete_completed_todos_response(m.state))

\* edit_todo, lines 305-311
edit_todo(state, id) ==
    LET item == get(state.todo_repo, id)
    IN  IF item.ok THEN {Handled(state, FALSE, Ok([item |-> item.val]))}
        ELSE {Handled(state, FALSE, Err(AppError_TodoRepo(item.err)))}

\* A variant of update_todo's first part that shows the updated item whatever
\* the selected filter.  C26 does not hold of it.
update_todo_locked_shows_item(state, id, text, is_completed) ==
    LET o == update(state.todo_repo, id, text, is_completed)
        s0 == [state EXCEPT !.todo_repo = o.self]
    IN  IF o.panic THEN Handled(s0, TRUE, None)
        ELSE IF ~unwrap(o.result).ok
        THEN Handled(s0, FALSE, Err(AppError_TodoRepo(unwrap(o.result).err)))
        ELSE Handled([s0 EXCEPT !.toggle_action =
                         IF s0.todo_repo.num_completed_items = s0.todo_repo.num_all_items
                         THEN "Uncheck" ELSE "Check"],
                     FALSE, Ok(Some(unwrap(o.result).val)))

\* update_todo, lines 336-352
update_todo_locked(state, id, text, is_completed) ==
    LET o == update(state.todo_repo, id, text, is_completed)
        s0 == [state EXCEPT !.todo_repo = o.self]
    IN  IF o.panic THEN Handled(s0, TRUE, None)
        ELSE IF ~unwrap(o.result).ok
        THEN Handled(s0, FALSE, Err(AppError_TodoRepo(unwrap(o.result).err)))
        ELSE
        LET item == unwrap(o.result).val
            s1 == [s0 EXCEPT !.toggle_action =
                      IF s0.todo_repo.num_completed_items = s0.todo_repo.num_all_items
                      THEN "Uncheck" ELSE "Check"]
            shown == CASE s1.selected_filter = "Active" /\ item.is_completed -> None
                       [] s1.selected_filter = "Active" /\ ~item.is_completed -> Some(item)
                       [] s1.selected_filter = "All" -> Some(item)
                       [] s1.selected_filter = "Completed" /\ item.is_completed -> Some(item)
                       [] s1.selected_filter = "Completed" /\ ~item.is_completed -> None
        IN  Handled(s1, FALSE, Ok(shown))

\* update_todo, lines 354-362: the UpdateTodoResponse
update_todo_response(state, item) ==
    {[num_completed_items |-> state.todo_repo.num_completed_items,
      num_active_items |-> state.todo_repo.num_active_items,
      num_all_items |-> state.todo_repo.num_all_items,
      is_disabled_delete |-> state.todo_repo.num_completed_items = U32_ZERO,
      is_disabled_toggle |-> state.todo_repo.num_all_items = U32_ZERO,
      action |-> state.toggle_action,
      item |-> item]}

update_todo(state, id, text, is_completed) ==
    LET m == update_todo_locked(state, id, text, is_completed)
    IN  Respond(m, update_todo_response(m.state, unwrap(m.result).val))

\* A variant of delete_todo's first part that tests num_active_items instead of
\* num_all_items for the toggle action.  C29 does not hold of it.
delete_todo_locked_tests_active(state, id) ==
    LET o == delete(state.todo_repo, id)
        s0 == [state EXCEPT !.todo_repo = o.self]
    IN  IF o.panic THEN Handled(s0, TRUE, None)
        ELSE IF ~unwrap(o.result).ok
        THEN Handled(s0, FALSE, Err(AppError_TodoRepo(unwrap(o.result).err)))
        ELSE Handled([s0 EXCEPT !.toggle_action =
                         IF s0.todo_repo.num_active_items = U32_ZERO
                         THEN "Check" ELSE "Uncheck"], FALSE, Ok("unit"))

\* delete_todo, lines 380-387
delete_todo_locked(state, id) ==
    LET o == delete(state.todo_repo, id)
        s0 == [state EXCEPT !.todo_repo = o.self]
    IN  IF o.panic THEN Handled(s0, TRUE, None)
        ELSE IF ~unwrap(o.result).ok
        THEN Handled(s0, FALSE, Err(AppError_TodoRepo(unwrap(o.result).err)))
        ELSE Handled([s0 EXCEPT !.toggle_action =
                         IF s0.todo_repo.num_all_items = U32_ZERO
                         THEN "Check" ELSE "Uncheck"], FALSE, Ok("unit"))

\* delete_todo, lines 389-396: the DeleteTodoResponse
delete_todo_response(state) ==
    {[num_completed_items |-> state.todo_repo.num_completed_items,
      num_active_items |-> state.todo_repo.num_active_items,
      num_all_items |-> state.todo_repo.num_all_items,
      is_disabled_delete |-> state.todo_repo.num_completed_items = U32_ZERO,
      is_disabled_toggle |-> state.todo_repo.num_all_items = U32_ZERO,
      action |-> state.toggle_action]}

delete_todo(state, id) ==
    LET m == delete_todo_locked(state, id)
    IN  Respond(m, delete_todo_response(m.state))

\* ------------------------------------------- lib.rs: one request at a time
\* A client that sends a request when it has the response to the one before
\* (the tests' app.oneshot): each handler runs from its first line to its
\* return with no other request in between.

\* The forms update_todo accepts: each field present or not.
UpdateTodoForms ==
    [text : {None} \cup {Some(x) : x \in Texts},
     is_completed : {None, Some(TRUE), Some(FALSE)}]

\* The end of a handler with outcome o: the AppState it leaves, and the record
\* of the request (r: handler and arguments) with the status and the response
\* the client gets.
Served(o, r) ==
    /\ Bounded(o.state.todo_repo)
    /\ items' = o.state.todo_repo.items
    /\ num_completed_items' = o.state.todo_repo.num_completed_items
    /\ num_active_items' = o.state.todo_repo.num_active_items
    /\ num_all_items' = o.state.todo_repo.num_all_items
    /\ selected_filter' = o.state.selected_filter
    /\ toggle_action' = o.state.toggle_action
    /\ panicked' = o.panic
    /\ call' = r @@ [returned |-> ~o.panic,
                     status |-> IF o.panic THEN None ELSE Some(into_response(unwrap(o.result))),
                     result |-> o.result]
    /\ UNCHANGED overflow_checks

ListTodos ==
    /\ CanCall
    /\ \E filter \in TodoListFilter : \E o \in list_todos(App, filter) :
          Served(o, [op |-> "list_todos", filter |-> filter])
    /\ UNCHANGED <<issued, now, lock, pc>>

\* The client's requests are far enough apart for SystemTime::now to have moved
\* on from one create to the next.
CreateTodo ==
    /\ CanCall
    /\ issued # Uuids
    /\ \E text \in Texts : \E o \in create_todo(App, text, now + 1, new_v4) :
          Served(o, [op |-> "create_todo", id |-> new_v4])
    /\ issued' = issued \cup {new_v4}
    /\ now' = now + 1
    /\ UNCHANGED <<lock, pc>>

ToggleCompletedTodos ==
    /\ CanCall
    /\ \E action \in TodoToggleAction : \E o \in toggle_completed_todos(App, action) :
          Served(o, [op |-> "toggle_completed_todos", action |-> action])
    /\ UNCHANGED <<issued, now, lock, pc>>

DeleteCompletedTodos ==
    /\ CanCall
    /\ \E o \in delete_completed_todos(App) :
          Served(o, [op |-> "delete_completed_todos", before |-> toggle_action])
    /\ UNCHANGED <<issued, now, lock, pc>>

EditTodo ==
    /\ CanCall
    /\ \E id \in Uuids : \E o \in edit_todo(App, id) :
          Served(o, [op |-> "edit_todo", id |-> id])
    /\ UNCHANGED <<issued, now, lock, pc>>

UpdateTodo ==
    /\ CanCall
    /\ \E id \in Uuids, form \in UpdateTodoForms :
          \E o \in update_todo(App, id, form.text, form.is_completed) :
             Served(o, [op |-> "update_todo", id |-> id])
    /\ UNCHANGED <<issued, now, lock, pc>>

DeleteTodo ==
    /\ CanCall
    /\ \E id \in Uuids : \E o \in delete_todo(App, id) :
          Served(o, [op |-> "delete_todo", id |-> id])
    /\ UNCHANGED <<issued, now, lock, pc>>

AppNext ==
    \/ ListTodos
    \/ CreateTodo
    \/ ToggleCompletedTodos
    \/ DeleteCompletedTodos
    \/ EditTodo
    \/ UpdateTodo
    \/ DeleteTodo
    \/ Return

SpecApp == Init /\ [][AppNext]_vars

\* ------------------------------------------ lib.rs: requests at the same time
\* The server runs every request as a task of its own, and the tasks share the
\* AppState behind one RwLock (SharedState).  A task's position is pc[t]: the
\* handler it runs, how far the handler has come, and what the handler holds in
\* its locals (the inputs of the request are drawn where the handler first uses
\* them).  A step of a handler is what it does between two points where
\* another task can run.

\* RwLock::write(): granted when nobody holds a guard
can_write(l) == l.writer = None /\ l.readers = {}

\* RwLock::read(): granted when no writer holds the guard
can_read(l) == l.writer = None

write(l, t) == [l EXCEPT !.writer = Some(t)]

read(l, t) == [l EXCEPT !.readers = @ \cup {t}]

\* drop of the guard task t holds, if it holds one
drop(l, t) ==
    [writer |-> IF l.writer = Some(t) THEN None ELSE l.writer,
     readers |-> l.readers \ {t}]

\* A variant of the guard's scope in which the handler gives the guard back as
\* soon as the repository call is done, and reads the counters for its
\* response without it.  C24 does not hold of it.
guard_after_call_dropped(l, t, m) == drop(l, t)

\* The write guard `state` of a mutating handler after its first part m: the
\* `?` of update_todo and delete_todo returns on an error, which drops the
\* guard; otherwise the guard lives on to the end of the function, past the
\* building of the response.
guard_after_call(l, t, m) ==
    IF ~m.panic /\ ~unwrap(m.result).ok THEN drop(l, t) ELSE l

\* A variant of list_todos' first statement in which the write guard is bound
\* to a name and lives on to the end of the function, so that the handler asks
\* for the read lock while it holds the write guard.  C37 does not hold of it.
guard_after_store_kept(l, t) == write(l, t)

\* The lock after list_todos' first statement (line 167): the write guard is a
\* temporary, taken and dropped within the statement.
guard_after_store(l, t) == drop(write(l, t), t)

\* A variant of the read guard's scope in list_todos in which the guard is
\* given back after the listing, and the counters are read without it.  C36
\* does not hold of it.
guard_after_listing_dropped(l, t) == drop(l, t)

\* The read guard `state` of list_todos after the listing: it lives on to the
\* end of the function, past the reading of the counters.
guard_after_listing(l, t) == l

\* The handlers that change the repository.
MutatingHandlers ==
    {"create_todo", "update_todo", "delete_todo", "delete_completed_todos",
     "toggle_completed_todos"}

\* The requests the tasks serve at the same time.
ServerTexts == {"a"}

ServerForms == [text : {None}, is_completed : {None, Some(TRUE), Some(FALSE)}]

\* The three counters as a handler reads them for its response.
Counters(repo) ==
    [num_completed_items |-> repo.num_completed_items,
     num_active_items |-> repo.num_active_items,
     num_all_items |-> repo.num_all_items]

At(t, at, op) == pc[t].at = at /\ pc[t].op = op

\* The response task t's handler returns: the client looks at it before the
\* tasks go on (after: the counters as they were right after the handler's own
\* repository call).
Reply(t, op, after, result) ==
    [op |-> op, task |-> t, after |-> after, returned |-> TRUE,
     status |-> Some(into_response(unwrap(result))), result |-> result]

\* What the first part of the mutating handler op does to the AppState as it
\* is, for each of the inputs the request may carry.
Mutations(op) ==
    CASE op = "create_todo" ->
            IF issued = Uuids THEN {}
            ELSE {create_todo_locked(App, text, now + 1, new_v4) : text \in ServerTexts}
      [] op = "update_todo" ->
            {update_todo_locked(App, id, form.text, form.is_completed) :
                id \in Uuids, form \in ServerForms}
      [] op = "delete_todo" -> {delete_todo_locked(App, id) : id \in Uuids}
      [] op = "delete_completed_todos" -> {delete_completed_todos_locked(App)}
      [] op = "toggle_completed_todos" ->
            {toggle_completed_todos_locked(App, action) : action \in TodoToggleAction}

\* The first line of the five mutating handlers:
\* let mut state = shared_state.write().unwrap()
\* (a request is followed when the counters it leaves are within the bounds)
AcquireWrite(t) ==
    /\ CanCall
    /\ pc[t] = NoRequest
    /\ can_write(lock)
    /\ \E op \in MutatingHandlers :
          /\ \E m \in Mutations(op) : Bounded(m.state.todo_repo)
          /\ pc' = [pc EXCEPT ![t] = [at |-> "locked", op |-> op]]
    /\ lock' = write(lock, t)
    /\ UNCHANGED <<items, num_completed_items, num_active_items, num_all_items,
                   overflow_checks, panicked, issued, now, call, selected_filter,
                   toggle_action>>

\* The first part m of a mutating handler has run: the AppState it leaves, the
\* guard, and the handler's locals (its result so far, and for the claims the
\* counters as they were right after the repository call).  On an error the
\* handler has returned.
Mutated(t, m) ==
    /\ Bounded(m.state.todo_repo)
    /\ items' = m.state.todo_repo.items
    /\ num_completed_items' = m.state.todo_repo.num_completed_items
    /\ num_active_items' = m.state.todo_repo.num_active_items
    /\ num_all_items' = m.state.todo_repo.num_all_items
    /\ selected_filter' = m.state.selected_filter
    /\ toggle_action' = m.state.toggle_action
    /\ panicked' = m.panic
    /\ lock' = guard_after_call(lock, t, m)
    /\ IF ~m.panic /\ ~unwrap(m.result).ok
       THEN /\ pc' = [pc EXCEPT ![t] = NoRequest]
            /\ call' = Reply(t, pc[t].op, Counters(m.state.todo_repo), m.result)
       ELSE /\ pc' = [pc EXCEPT ![t] = [at |-> "mutated",
                                        op |-> pc[t].op,
                                        after |-> Counters(m.state.todo_repo),
                                        result |-> m.result]]
            /\ call' = call
    /\ UNCHANGED overflow_checks

\* The response of a mutating handler is built, the function returns and the
\* guard goes out of scope.
Responded(t, responses) ==
    /\ \E r \in responses :
          call' = Reply(t, pc[t].op, pc[t].after, Some(Ok(r)))
    /\ pc' = [pc EXCEPT ![t] = NoRequest]
    /\ lock' = drop(lock, t)
    /\ UNCHANGED <<items, num_completed_items, num_active_items, num_all_items,
                   overflow_checks, panicked, issued, now, selected_filter,
                   toggle_action>>

CreateTodoLocked(t) ==
    /\ CanCall
    /\ At(t, "locked", "create_todo")
    /\ \E m \in Mutations("create_todo") : Mutated(t, m)
    /\ issued' = issued \cup {new_v4}
    /\ now' = now + 1

CreateTodoResponse(t) ==
    /\ CanCall
    /\ At(t, "mutated", "create_todo")
    /\ Responded(t, create_todo_response(App, unwrap(pc[t].result).val))

UpdateTodoLocked(t) ==
    /\ CanCall
    /\ At(t, "locked", "update_todo")
    /\ \E m \in Mutations("update_todo") : Mutated(t, m)
    /\ UNCHANGED <<issued, now>>

UpdateTodoResponse(t) ==
    /\ CanCall
    /\ At(t, "mutated", "update_todo")
    /\ Responded(t, update_todo_response(App, unwrap(pc[t].result).val))

DeleteTodoLocked(t) ==
    /\ CanCall
    /\ At(t, "locked", "delete_todo")
    /\ \E m \in Mutations("delete_todo") : Mutated(t, m)
    /\ UNCHANGED <<issued, now>>

DeleteTodoResponse(t) ==
    /\ CanCall
    /\ At(t, "mutated", "delete_todo")
    /\ Responded(t, delete_todo_response(App))

DeleteCompletedTodosLocked(t) ==
    /\ CanCall
    /\ At(t, "locked", "delete_completed_todos")
    /\ \E m \in Mutations("delete_completed_todos") : Mutated(t, m)
    /\ UNCHANGED <<issued, now>>

DeleteCompletedTodosResponse(t) ==
    /\ CanCall
    /\ At(t, "mutated", "delete_completed_todos")
    /\ Responded(t, delete_completed_todos_response(App))

ToggleCompletedTodosLocked(t) ==
    /\ CanCall
    /\ At(t, "locked", "toggle_completed_todos")
    /\ \E m \in Mutations("toggle_completed_todos") : Mutated(t, m)
    /\ UNCHANGED <<issued, now>>

ToggleCompletedTodosResponse(t) ==
    /\ CanCall
    /\ At(t, "mutated", "toggle_completed_todos")
    /\ Responded(t, toggle_completed_todos_response(App))

\* list_todos, line 167: the write guard is a temporary of the statement
ListTodosStore(t) ==
    /\ CanCall
    /\ pc[t] = NoRequest
    /\ can_write(lock)
    /\ \E filter \in TodoListFilter :
          /\ selected_filter' = list_todos_store(App, filter).selected_filter
          /\ pc' = [pc EXCEPT ![t] = [at |-> "stored", op |-> "list_todos",
                                      filter |-> filter]]
    /\ lock' = guard_after_store(lock, t)
    /\ UNCHANGED <<items, num_completed_items, num_active_items, num_all_items,
                   overflow_checks, panicked, issued, now, call, toggle_action>>

\* list_todos, line 169: let state = shared_state.read().unwrap()
ListTodosRead(t) ==
    /\ CanCall
    /\ At(t, "stored", "list_todos")
    /\ can_read(lock)
    /\ lock' = read(lock, t)
    /\ pc' = [pc EXCEPT ![t].at = "reading"]
    /\ UNCHANGED <<items, num_completed_items, num_active_items, num_all_items,
                   overflow_checks, panicked, issued, now, call, selected_filter,
                   toggle_action>>

\* list_todos, line 170: the listing under the read guard
ListTodosListing(t) ==
    /\ CanCall
    /\ At(t, "reading", "list_todos")
    /\ \E todos \in list_todos_listing(App, pc[t].filter) :
          pc' = [pc EXCEPT ![t] = [@ EXCEPT !.at = "listed"] @@ [todos |-> todos]]
    /\ lock' = guard_after_listing(lock, t)
    /\ UNCHANGED <<items, num_completed_items, num_active_items, num_all_items,
                   overflow_checks, panicked, issued, now, call, selected_filter,
                   toggle_action>>

\* list_todos, lines 172-181: the counters are read, the response is built, the
\* function returns and the guard goes out of scope
ListTodosResponse(t) ==
    /\ CanCall
    /\ At(t, "listed", "list_todos")
    /\ call' = Reply(t, "list_todos", Counters(Repo),
                     Some(Ok(list_todos_counters(App, pc[t].todos))))
               @@ [filter |-> pc[t].filter]
    /\ pc' = [pc EXCEPT ![t] = NoRequest]
    /\ lock' = drop(lock, t)
    /\ UNCHANGED <<items, num_completed_items, num_active_items, num_all_items,
                   overflow_checks, panicked, issued, now, selected_filter,
                   toggle_action>>

\* edit_todo: the read guard is a temporary of the statement
EditTodoRead(t) ==
    /\ CanCall
    /\ pc[t] = NoRequest
    /\ can_read(lock)
    /\ \E id \in Uuids : \E o \in edit_todo(App, id) :
          call' = Reply(t, "edit_todo", Counters(Repo), o.result)
    /\ UNCHANGED <<items, num_completed_items, num_active_items, num_all_items,
                   overflow_checks, panicked, issued, now, selected_filter,
                   toggle_action, lock, pc>>

ServerNext ==
    \/ \E t \in Threads :
          \/ AcquireWrite(t)
          \/ CreateTodoLocked(t)
          \/ CreateTodoResponse(t)
          \/ UpdateTodoLocked(t)
          \/ UpdateTodoResponse(t)
          \/ DeleteTodoLocked(t)
          \/ DeleteTodoResponse(t)
          \/ DeleteCompletedTodosLocked(t)
          \/ DeleteCompletedTodosResponse(t)
          \/ ToggleCompletedTodosLocked(t)
          \/ ToggleCompletedTodosResponse(t)
          \/ ListTodosStore(t)
          \/ ListTodosRead(t)
          \/ ListTodosListing(t)
          \/ ListTodosResponse(t)
          \/ EditTodoRead(t)
    \/ Return

SpecServer == Init /\ [][ServerNext]_vars

\* ---------------------------------------------- lib.rs: the scheduling
\* The lock is asked for and given back in the same way whatever the tasks
\* stored and whatever the counters, so the scheduling is followed on the runs
\* of a client that creates one task only, and in which every handler either
\* leaves the counters the true counts or aborts.

\* The counters of the repository are the numbers they name.
CountersAreCounts ==
    /\ num_all_items = u32(Cardinality(DOMAIN items))
    /\ num_completed_items = u32(Cardinality({k \in DOMAIN items : items[k].is_completed}))
    /\ num_active_items = u32(Cardinality({k \in DOMAIN items : ~items[k].is_completed}))

AcquireWriteOneTask(t) ==
    /\ AcquireWrite(t)
    /\ pc'[t].op = "create_todo" => issued = {}

\* A step of task t inside a handler it has begun.
Continue(t) ==
    /\ \/ CreateTodoLocked(t)
       \/ CreateTodoResponse(t)
       \/ UpdateTodoLocked(t)
       \/ UpdateTodoResponse(t)
       \/ DeleteTodoLocked(t)
       \/ DeleteTodoResponse(t)
       \/ DeleteCompletedTodosLocked(t)
       \/ DeleteCompletedTodosResponse(t)
       \/ ToggleCompletedTodosLocked(t)
       \/ ToggleCompletedTodosResponse(t)
       \/ ListTodosRead(t)
       \/ ListTodosListing(t)
       \/ ListTodosResponse(t)
    /\ CountersAreCounts' \/ panicked'

ServerFairNext ==
    \/ \E t \in Threads :
          \/ AcquireWriteOneTask(t)
          \/ ListTodosStore(t)
          \/ EditTodoRead(t)
          \/ Continue(t)
    \/ Return

\* The scheduling: the runtime runs every task that can run, a task that asks
\* for the lock gets it if the lock is free again and again (fair lock
\* scheduling), and the client takes every response.
ServerFairness ==
    /\ \A t \in Threads : SF_vars(Continue(t))
    /\ WF_vars(Return)

SpecServerFair == Init /\ [][ServerFairNext]_vars /\ ServerFairness

\* ------------------------------------------------------ main.rs: the handlers
\* main.rs is a server of its own: the same AppState behind the same kind of
\* RwLock, with handlers that work on the fields of its TodoRepo directly (its
\* map `todos` is the variable items).  A handler is made of parts, each the
\* statements that run under one guard; main_<handler>_<part>(state, ...) is
\* what the part does to the AppState `state` and what it yields.

\* create_todo (main.rs), lines 331-349
main_create_todo(state, text, t, id) ==
    LET todo == Todo_new(text, t, id)
        s0 == [state EXCEPT !.todo_repo.items = insert(@, todo.id, todo),
                            !.toggle_action = "Check"]
        s1 == add_assign(Running(s0.todo_repo), "num_active_items", u32(1))
        s2 == add_assign(s1, "num_all_items", u32(1))
        s3 == [s0 EXCEPT !.todo_repo = s2.self]
    IN  Handled(s3, s2.panic,
                Ok([item |-> IF s3.selected_filter = "Completed" THEN None ELSE Some(todo),
                    num_active_items |-> s3.todo_repo.num_active_items,
                    num_all_items |-> s3.todo_repo.num_all_items,
                    is_disabled_toggle |-> FALSE,
                    action |-> s3.toggle_action]))

\* update_todo (main.rs), lines 465-472: the lookup, under a read guard that is a
\* temporary of the statement
main_update_todo_lookup(state, id) ==
    IF id \in DOMAIN state.todo_repo.items
    THEN Ok(state.todo_repo.items[id])
    ELSE Err(StatusCode_NOT_FOUND)

\* update_todo (main.rs), lines 474-506: under the write guard, with the clone `todo` the
\* lookup made
main_update_todo_write(state, todo, text, is_completed) ==
    LET s0 == Running(state.todo_repo)
        t1 == IF is_some(is_completed)
              THEN [todo EXCEPT !.is_completed = unwrap(is_completed)] ELSE todo
        s1 == IF ~is_some(is_completed) THEN s0
              ELSE IF t1.is_completed
              THEN sub_assign(add_assign(s0, "num_completed_items", u32(1)),
                              "num_active_items", u32(1))
              ELSE add_assign(sub_assign(s0, "num_completed_items", u32(1)),
                              "num_active_items", u32(1))
        t2 == IF is_some(text) THEN [t1 EXCEPT !.text = unwrap(text)] ELSE t1
        s2 == IF s1.panic THEN s1
              ELSE [s1 EXCEPT !.self.items = insert(@, t2.id, t2)]
        s3 == [state EXCEPT !.todo_repo = s2.self]
        shown == CASE s3.selected_filter = "Active" /\ t2.is_completed -> None
                   [] s3.selected_filter = "Active" /\ ~t2.is_completed -> Some(t2)
                   [] s3.selected_filter = "All" -> Some(t2)
                   [] s3.selected_filter = "Completed" /\ t2.is_completed -> Some(t2)
                   [] s3.selected_filter = "Completed" /\ ~t2.is_completed -> None
    IN  Handled(s3, s2.panic,
                Ok([item |-> shown,
                    num_completed_items |-> s3.todo_repo.num_completed_items,
                    num_active_items |-> s3.todo_repo.num_active_items,
                    is_disabled_delete |-> s3.todo_repo.num_completed_items = U32_ZERO]))

\* delete_todo (main.rs), lines 513-540
main_delete_todo(state, id) ==
    IF id \notin DOMAIN state.todo_repo.items
    THEN Handled(state, FALSE, Err(StatusCode_NOT_FOUND))
    ELSE
    LET item == state.todo_repo.items[id]
        s0 == Running([state.todo_repo EXCEPT !.items = restrict(@, DOMAIN @ \ {id})])
        s1 == IF item.is_completed
              THEN sub_assign(s0, "num_completed_items", u32(1))
              ELSE sub_assign(s0, "num_active_items", u32(1))
        s2 == sub_assign(s1, "num_all_items", u32(1))
        s3 == [state EXCEPT !.todo_repo = s2.self,
                            !.toggle_action = IF s2.panic THEN @
                                              ELSE IF s2.self.num_all_items = U32_ZERO
                                              THEN "Check" ELSE "Uncheck"]
    IN  Handled(s3, s2.panic,
                Ok([num_completed_items |-> s3.todo_repo.num_completed_items,
                    num_active_items |-> s3.todo_repo.num_active_items,
                    num_all_items |-> s3.todo_repo.num_all_items,
                    is_disabled_delete |-> s3.todo_repo.num_completed_items = U32_ZERO,
                    is_disabled_toggle |-> s3.todo_repo.num_all_items = U32_ZERO,
                    action |-> s3.toggle_action]))

\* delete_completed_todo, lines 418-441
main_delete_completed_todo(state) ==
    LET s0 == Running([state.todo_repo EXCEPT
                          !.items = restrict(@, {k \in DOMAIN @ : ~@[k].is_completed})])
        s1 == sub_assign(s0, "num_all_items", state.todo_repo.num_completed_items)
        s2 == IF s1.panic THEN state.toggle_action ELSE "Check"
        s3 == IF s1.panic THEN s1.self ELSE [s1.self EXCEPT !.num_completed_items = U32_ZERO]
        s4 == [state EXCEPT !.todo_repo = s3, !.toggle_action = s2]
        listings == IF s4.selected_filter = "Completed" THEN {<<>>}
                    ELSE list(s4.todo_repo, "All")
    IN  {Handled(s4, s1.panic,
                 Ok([todos |-> todos,
                     num_completed_items |-> s4.todo_repo.num_completed_items,
                     num_all_items |-> s4.todo_repo.num_all_items,
                     is_disabled_delete |-> TRUE,
                     is_disabled_toggle |-> s4.todo_repo.num_all_items = U32_ZERO,
                     action |-> s4.toggle_action])) : todos \in listings}

\* toggle_completed_todo, lines 356-358: the early return, decided under a
\* read guard that is a temporary of the condition
main_toggle_completed_todo_empty(state) == state.todo_repo.num_all_items = U32_ZERO

\* toggle_completed_todo, lines 360-386: under the write guard, up to
\* drop(state)
main_toggle_completed_todo_write(state, action) ==
    LET is_completed == (action = "Check")
        s0 == [state EXCEPT !.toggle_action = CASE action = "Uncheck" -> "Check"
                                                [] action = "Check" -> "Uncheck"]
        s1 == [s0 EXCEPT !.todo_repo.items =
                  [k \in DOMAIN @ |-> [@[k] EXCEPT !.is_completed = is_completed]]]
    IN  IF is_completed
        THEN [s1 EXCEPT !.todo_repo.num_completed_items = s1.todo_repo.num_all_items,
                        !.todo_repo.num_active_items = U32_ZERO]
        ELSE [s1 EXCEPT !.todo_repo.num_completed_items = U32_ZERO,
                        !.todo_repo.num_active_items = s1.todo_repo.num_all_items]

\* list_todo, lines 299-324, and toggle_completed_todo, lines 388-414: the
\* listing and the response under a read guard
main_listing(state, filter) ==
    {[todos |-> todos,
      num_completed_items |-> state.todo_repo.num_completed_items,
      num_active_items |-> state.todo_repo.num_active_items,
      num_all_items |-> state.todo_repo.num_all_items,
      is_disabled_delete |-> state.todo_repo.num_completed_items = U32_ZERO,
      is_disabled_toggle |-> state.todo_repo.num_all_items = U32_ZERO,
      action |-> state.toggle_action] : todos \in list(state.todo_repo, filter)}

\* edit_todo (main.rs), lines 448-457
main_edit_todo(state, id) ==
    IF id \in DOMAIN state.todo_repo.items
    THEN Ok([item |-> state.todo_repo.items[id]])
    ELSE Err(StatusCode_NOT_FOUND)

\* update_todo (main.rs), lines 460-507, with no other request in between
main_update_todo(state, id, text, is_completed) ==
    LET found == main_update_todo_lookup(state, id)
    IN  IF found.ok
        THEN main_update_todo_write(state, found.val, text, is_completed)
        ELSE Handled(state, FALSE, found)

\* toggle_completed_todo, lines 352-415, with no other request in between
main_toggle_completed_todo(state, action) ==
    IF main_toggle_completed_todo_empty(state)
    THEN {Handled(state, FALSE, Ok([todos |-> <<>>]))}
    ELSE LET s0 == main_toggle_completed_todo_write(state, action)
         IN  {Handled(s0, FALSE, Ok(r)) : r \in main_listing(s0, s0.selected_filter)}

\* list_todo, lines 293-325, with no other request in between
main_list_todo(state, filter) ==
    LET s0 == [state EXCEPT !.selected_filter = filter]
    IN  {Handled(s0, FALSE, Ok(r)) : r \in main_listing(s0, filter)}

\* ----------------------------------------- main.rs: requests at the same time
\* Every part of a handler of main.rs takes its guard and gives it back within
\* the part, so the lock is free between the steps of the tasks, and a step is
\* a part.

MainTexts == {"a"}

MainForms ==
    [text : {None} \cup {Some(x) : x \in MainTexts},
     is_completed : {None, Some(TRUE), Some(FALSE)}]

\* The response task t's handler returns.
MainReply(t, op, result) ==
    [op |-> op, task |-> t, returned |-> TRUE,
     status |-> Some(IF result.ok THEN StatusCode_OK ELSE result.err),
     result |-> Some(result)]

\* A part that writes has run: the AppState it leaves.
MainWritten(m) ==
    /\ Bounded(m.state.todo_repo)
    /\ items' = m.state.todo_repo.items
    /\ num_completed_items' = m.state.todo_repo.num_completed_items
    /\ num_active_items' = m.state.todo_repo.num_active_items
    /\ num_all_items' = m.state.todo_repo.num_all_items
    /\ selected_filter' = m.state.selected_filter
    /\ toggle_action' = m.state.toggle_action
    /\ panicked' = m.panic
    /\ UNCHANGED <<overflow_checks, lock>>

\* The last part of a handler that writes has run, and the handler returns.
MainServed(t, op, m) ==
    /\ MainWritten(m)
    /\ call' = IF m.panic THEN call ELSE MainReply(t, op, unwrap(m.result))
    /\ pc' = [pc EXCEPT ![t] = NoRequest]

\* A part that only reads has run, and the handler returns.
MainAnswered(t, op, result) ==
    /\ call' = MainReply(t, op, result)
    /\ pc' = [pc EXCEPT ![t] = NoRequest]
    /\ UNCHANGED <<items, num_completed_items, num_active_items, num_all_items,
                   overflow_checks, panicked, issued, now, selected_filter,
                   toggle_action, lock>>

MainCreateTodo(t) ==
    /\ CanCall
    /\ pc[t] = NoRequest
    /\ can_write(lock)
    /\ issued # Uuids
    /\ \E text \in MainTexts :
          MainServed(t, "create_todo", main_create_todo(App, text, now + 1, new_v4))
    /\ issued' = issued \cup {new_v4}
    /\ now' = now + 1

MainUpdateTodoLookup(t) ==
    /\ CanCall
    /\ pc[t] = NoRequest
    /\ can_read(lock)
    /\ \E id \in Uuids :
          LET found == main_update_todo_lookup(App, id)
          IN  IF found.ok
              THEN /\ pc' = [pc EXCEPT ![t] = [at |-> "found", op |-> "update_todo",
                                               todo |-> found.val]]
                   /\ UNCHANGED <<items, num_completed_items, num_active_items,
                                  num_all_items, overflow_checks, panicked, issued,
                                  now, call, selected_filter, toggle_action, lock>>
              ELSE MainAnswered(t, "update_todo", found)

MainUpdateTodoWrite(t) ==
    /\ CanCall
    /\ At(t, "found", "update_todo")
    /\ can_write(lock)
    /\ \E form \in MainForms :
          MainServed(t, "update_todo",
                     main_update_todo_write(App, pc[t].todo, form.text, form.is_completed))
    /\ UNCHANGED <<issued, now>>

MainDeleteTodo(t) ==
    /\ CanCall
    /\ pc[t] = NoRequest
    /\ can_write(lock)
    /\ \E id \in Uuids : MainServed(t, "delete_todo", main_delete_todo(App, id))
    /\ UNCHANGED <<issued, now>>

MainDeleteCompletedTodo(t) ==
    /\ CanCall
    /\ pc[t] = NoRequest
    /\ can_write(lock)
    /\ \E m \in main_delete_completed_todo(App) :
          MainServed(t, "delete_completed_todo", m)
    /\ UNCHANGED <<issued, now>>

MainToggleCompletedTodoCheck(t) ==
    /\ CanCall
    /\ pc[t] = NoRequest
    /\ can_read(lock)
    /\ IF main_toggle_completed_todo_empty(App)
       THEN MainAnswered(t, "toggle_completed_todo", Ok([todos |-> <<>>]))
       ELSE /\ pc' = [pc EXCEPT ![t] = [at |-> "checked", op |-> "toggle_completed_todo"]]
            /\ UNCHANGED <<items, num_completed_items, num_active_items,
                           num_all_items, overflow_checks, panicked, issued, now,
                           call, selected_filter, toggle_action, lock>>

MainToggleCompletedTodoWrite(t) ==
    /\ CanCall
    /\ At(t, "checked", "toggle_completed_todo")
    /\ can_write(lock)
    /\ \E action \in TodoToggleAction :
          MainWritten(Handled(main_toggle_completed_todo_write(App, action), FALSE,
                              Ok("unit")))
    /\ pc' = [pc EXCEPT ![t].at = "toggled"]
    /\ UNCHANGED <<issued, now, call>>

MainToggleCompletedTodoRead(t) ==
    /\ CanCall
    /\ At(t, "toggled", "toggle_completed_todo")
    /\ can_read(lock)
    /\ \E r \in main_listing(App, selected_filter) :
          MainAnswered(t, "toggle_completed_todo", Ok(r))

MainListTodoStore(t) ==
    /\ CanCall
    /\ pc[t] = NoRequest
    /\ can_write(lock)
    /\ \E filter \in TodoListFilter :
          /\ selected_filter' = filter
          /\ pc' = [pc EXCEPT ![t] = [at |-> "stored", op |-> "list_todo",
                                      filter |-> filter]]
    /\ UNCHANGED <<items, num_completed_items, num_active_items, num_all_items,
                   overflow_checks, panicked, issued, now, call, toggle_action,
                   lock>>

MainListTodoRead(t) ==
    /\ CanCall
    /\ At(t, "stored", "list_todo")
    /\ can_read(lock)
    /\ \E r \in main_listing(App, pc[t].filter) :
          MainAnswered(t, "list_todo", Ok(r))

MainEditTodo(t) ==
    /\ CanCall
    /\ pc[t] = NoRequest
    /\ can_read(lock)
    /\ \E id \in Uuids :
          /\ call' = MainReply(t, "edit_todo", main_edit_todo(App, id))
          /\ UNCHANGED <<items, num_completed_items, num_active_items,
                         num_all_items, overflow_checks, panicked, issued, now,
                         selected_filter, toggle_action, lock, pc>>

MainNext ==
    \/ \E t \in Threads :
          \/ MainCreateTodo(t)
          \/ MainUpdateTodoLookup(t)
          \/ MainUpdateTodoWrite(t)
          \/ MainDeleteTodo(t)
          \/ MainDeleteCompletedTodo(t)
          \/ MainToggleCompletedTodoCheck(t)
          \/ MainToggleCompletedTodoWrite(t)
          \/ MainToggleCompletedTodoRead(t)
          \/ MainListTodoStore(t)
          \/ MainListTodoRead(t)
          \/ MainEditTodo(t)
    \/ Return

SpecMain == Init /\ [][MainNext]_vars



\* ------------------------------------------------------- reading the counters

\* The number of tasks of self.items whose is_completed is flag.
CountFlag(self, flag) ==
    Cardinality({k \in DOMAIN self.items : self.items[k].is_completed = flag})

\* y is x + 1, as numbers (x + 1 fits in 32 bits).
PlusOne(x, y) == ~add_overflows(x, u32(1)) /\ y = wrapping_add(x, u32(1))

\* y is x - 1, as numbers (x is not 0).
MinusOne(x, y) == ~sub_overflows(x, u32(1)) /\ y = wrapping_sub(x, u32(1))

\* The three counters of self and of other are the same.
SameCounters(self, other) ==
    /\ self.num_completed_items = other.num_completed_items
    /\ self.num_active_items = other.num_active_items
    /\ self.num_all_items = other.num_all_items

\* The last call was op on an id that was a key of items when it began.
CallOnPresent(op) == call.op = op /\ call.id \in DOMAIN call.pre.items

\* ------------------------------------------------------------------- C1..C3

\* C1 (as claimed): after every call that has returned, num_all_items is the
\* number of tasks in items.
C1_NumAllIsSize ==
    ~panicked => num_all_items = u32(Cardinality(DOMAIN items))

\* C2 (as claimed): after every call that has returned, num_active_items +
\* num_completed_items is num_all_items (as numbers: the sum fits in 32 bits
\* and equals num_all_items).
C2_ActivePlusCompletedIsAll ==
    ~panicked =>
        /\ ~add_overflows(num_active_items, num_completed_items)
        /\ wrapping_add(num_active_items, num_completed_items) = num_all_items

\* C3 (as claimed): in every state reached by calls that returned,
\* num_completed_items is the number of completed tasks and num_active_items
\* the number of active ones.
C3_CountersAreCounts ==
    ~panicked =>
        /\ num_completed_items = u32(CountFlag(Repo, TRUE))
        /\ num_active_items = u32(CountFlag(Repo, FALSE))


\* ----------------------------------------------------------------------- C4

\* The last call was update(id, _, Some(v)) on a task that was there.
FlagUpdate == CallOnPresent("update") /\ is_some(call.is_completed)

\* The last call was update(id, _, Some(v)) on a task whose is_completed was
\* already v.
RedundantFlagUpdate ==
    FlagUpdate /\ call.pre.items[call.id].is_completed = unwrap(call.is_completed)

OnlyActive(self, t) ==
    /\ t \in DOMAIN self.items
    /\ \A k \in DOMAIN self.items : ~self.items[k].is_completed <=> k = t

\* update(t, None, Some(true)) twice in a row from self: the second call takes
\* 1 from num_active_items while it is 0 (it aborts there when the build checks
\* overflow, and leaves 2^32 - 1 when it does not).
SecondUpdateUnderflows(self, t) ==
    LET first == update(self, t, None, Some(TRUE))
        second == update(first.self, t, None, Some(TRUE))
    IN  /\ ~first.panic
        /\ first.self.num_active_items = U32_ZERO
        /\ IF overflow_checks
           THEN second.panic /\ second.self.num_active_items = U32_ZERO
           ELSE ~second.panic /\ second.self.num_active_items = U32_MAX

CompleteCall == CallOnPresent("update") /\ call.text = None /\ call.is_completed = Some(TRUE)

C6_UpdateFlagMovesOne ==
    /\ FlagUpdate
    /\ call.text = None
    /\ call.pre.items[call.id].is_completed # unwrap(call.is_completed)
    =>
    LET v == unwrap(call.is_completed)
        updated == [call.pre.items[call.id] EXCEPT !.is_completed = v]
    IN  /\ call.returned
        /\ unwrap(call.result) = Ok(updated)
        /\ items = [call.pre.items EXCEPT ![call.id] = updated]
        /\ num_all_items = call.pre.num_all_items
        /\ IF v
           THEN /\ PlusOne(call.pre.num_completed_items, num_completed_items)
                /\ MinusOne(call.pre.num_active_items, num_active_items)
           ELSE /\ MinusOne(call.pre.num_completed_items, num_completed_items)
                /\ PlusOne(call.pre.num_active_items, num_active_items)

\* ----------------------------------------------------------------------- C7

\* C7: update(id, Some(text), None) on a task that is there changes that task's
\* text and nothing else (not its is_completed, id or created_at, no other
\* task, no counter) and returns the task as stored; update(id, None, None)
\* changes nothing and returns the task as it is.
C7_OmittedFieldIsNoOp ==
    CallOnPresent("update") /\ call.is_completed = None =>
        /\ call.returned
        /\ SameCounters(Repo, call.pre)
        /\ unwrap(call.result) = Ok(items[call.id])
        /\ IF is_some(call.text)
           THEN items = [call.pre.items EXCEPT ![call.id].text = unwrap(call.text)]
           ELSE items = call.pre.items

\* C7's case: update(id, Some(text), None) has changed the text of a completed
\* task, beside another task.
C7_Witness ==
    /\ CallOnPresent("update")
    /\ call.is_completed = None
    /\ is_some(call.text)
    /\ call.returned
    /\ call.pre.items[call.id].text # unwrap(call.text)
    /\ items[call.id].text = unwrap(call.text)
    /\ items[call.id].is_completed
    /\ Cardinality(DOMAIN items) > 1

\* ----------------------------------------------------------------------- C8

\* C8: get, update and delete on an id that is not a key of items return
\* Err(NotFound) and leave items and the three counters as they were, whatever
\* text and is_completed update was given; and they return an error in no other
\* case (list, create, delete_completed and toggle_completed return no Result).
C8_NotFound ==
    call.op \in {"get", "update", "delete"} =>
        /\ call.id \notin DOMAIN call.pre.items =>
              /\ call.returned
              /\ unwrap(call.result) = Err(NotFound)
              /\ Repo = call.pre
        /\ call.returned /\ ~unwrap(call.result).ok =>
              /\ call.id \notin DOMAIN call.pre.items
              /\ unwrap(call.result).err = NotFound

\* C8's case: update with a text and a flag, on an id that is not a key of a
\* repository that holds another task, has returned Err(NotFound).
C8_Witness ==
    /\ call.op = "update"
    /\ call.id \notin DOMAIN call.pre.items
    /\ is_some(call.text)
    /\ is_some(call.is_completed)
    /\ call.pre.items # <<>>
    /\ call.returned
    /\ ~unwrap(call.result).ok

\* ----------------------------------------------------------------------- C9

\* C9 (as claimed): delete(id) on a key of items removes that task and no other,
\* takes 1 from num_all_items, and takes 1 from num_completed_items if the task
\* was completed and from num_active_items if not, leaving the other of the two
\* as it was.
C9_DeleteTakesOne ==
    CallOnPresent("delete") =>
        /\ call.returned
        /\ unwrap(call.result) = Ok("unit")
        /\ items = restrict(call.pre.items, DOMAIN call.pre.items \ {call.id})
        /\ MinusOne(call.pre.num_all_items, num_all_items)
        /\ IF call.pre.items[call.id].is_completed
           THEN /\ MinusOne(call.pre.num_completed_items, num_completed_items)
                /\ num_active_items = call.pre.num_active_items
           ELSE /\ MinusOne(call.pre.num_active_items, num_active_items)
                /\ num_completed_items = call.pre.num_completed_items

\* ---------------------------------------------------------------------- C10

\* C10 (as claimed): create(text) returns a task with that text and
\* is_completed false; items then holds it under its own id, which was no key
\* before, beside every task it held, unchanged; num_all_items and
\* num_active_items are each larger by 1 and num_completed_items is as it was.
C10_CreateAddsOne ==
    call.op = "create" =>
        /\ call.returned
        /\ LET todo == unwrap(call.result)
           IN  /\ todo.text = call.text
               /\ ~todo.is_completed
               /\ todo.id \notin DOMAIN call.pre.items
               /\ DOMAIN items = DOMAIN call.pre.items \cup {todo.id}
               /\ items[todo.id] = todo
               /\ \A k \in DOMAIN call.pre.items : items[k] = call.pre.items[k]
        /\ Cardinality(DOMAIN items) = Cardinality(DOMAIN call.pre.items) + 1
        /\ PlusOne(call.pre.num_all_items, num_all_items)
        /\ PlusOne(call.pre.num_active_items, num_active_items)
        /\ num_completed_items = call.pre.num_completed_items


\* ---------------------------------------------------------------------- C11

\* The keys of self.items whose task has is_completed = flag.
KeysFlag(self, flag) == {k \in DOMAIN self.items : self.items[k].is_completed = flag}

\* C11: after delete_completed has returned, items holds no completed task,
\* every task that was active when it began is still there, unchanged, and
\* nothing else is; num_completed_items is 0 and num_active_items is what it
\* was.
C11_DeleteCompleted ==
    call.op = "delete_completed" /\ call.returned =>
        /\ KeysFlag(Repo, TRUE) = {}
        /\ DOMAIN items = KeysFlag(call.pre, FALSE)
        /\ \A k \in KeysFlag(call.pre, FALSE) : items[k] = call.pre.items[k]
        /\ num_completed_items = U32_ZERO
        /\ num_active_items = call.pre.num_active_items

\* C11's case: delete_completed has returned from a repository that held a
\* completed and an active task.
C11_Witness ==
    /\ call.op = "delete_completed"
    /\ call.returned
    /\ KeysFlag(call.pre, TRUE) # {}
    /\ KeysFlag(call.pre, FALSE) # {}
    /\ call.pre.num_completed_items # U32_ZERO

\* ---------------------------------------------------------------------- C12

\* C12 (as claimed): delete_completed takes from num_all_items exactly the
\* number of tasks it removes from items.
C12_DeleteCompletedTakesRemoved ==
    call.op = "delete_completed" =>
        /\ call.returned
        /\ ~sub_overflows(call.pre.num_all_items, u32(CountFlag(call.pre, TRUE)))
        /\ num_all_items = wrapping_sub(call.pre.num_all_items, u32(CountFlag(call.pre, TRUE)))

\* ---------------------------------------------------------------------- C13

\* C13 (as claimed): when no task of items is completed, delete_completed
\* leaves items and the three counters as they were.
C13_DeleteCompletedNoneCompleted ==
    call.op = "delete_completed" /\ KeysFlag(call.pre, TRUE) = {} =>
        /\ call.returned
        /\ Repo = call.pre


\* ---------------------------------------------------------------------- C14

\* self and other hold the same ids, and each task has the text, id and
\* created_at it has in other.
SameButFlags(self, other) ==
    /\ DOMAIN self.items = DOMAIN other.items
    /\ \A k \in DOMAIN self.items :
           /\ self.items[k].text = other.items[k].text
           /\ self.items[k].id = other.items[k].id
           /\ self.items[k].created_at = other.items[k].created_at

\* C14: toggle_completed(Check) returns with every flag true,
\* num_completed_items = num_all_items and num_active_items = 0;
\* toggle_completed(Uncheck) with every flag false, num_completed_items = 0 and
\* num_active_items = num_all_items.  Whatever the state before: num_all_items,
\* the ids and every task's text, id and created_at are as they were.
C14_ToggleOverwrites ==
    call.op = "toggle_completed" =>
        /\ call.returned
        /\ num_all_items = call.pre.num_all_items
        /\ SameButFlags(Repo, call.pre)
        /\ call.action = "Check" =>
               /\ KeysFlag(Repo, FALSE) = {}
               /\ num_completed_items = num_all_items
               /\ num_active_items = U32_ZERO
        /\ call.action = "Uncheck" =>
               /\ KeysFlag(Repo, TRUE) = {}
               /\ num_completed_items = U32_ZERO
               /\ num_active_items = num_all_items

\* C14's case: toggle_completed(Check) has returned from a repository that held
\* a completed and an active task.
C14_Witness ==
    /\ call.op = "toggle_completed"
    /\ call.action = "Check"
    /\ call.returned
    /\ KeysFlag(call.pre, TRUE) # {}
    /\ KeysFlag(call.pre, FALSE) # {}

\* ---------------------------------------------------------------------- C15

\* toggle_completed(Check) and then toggle_completed(Uncheck), from self.
CheckThenUncheck(self) ==
    LET checked == toggle_completed(self, "Check")
    IN  IF checked.panic THEN checked ELSE toggle_completed(checked.self, "Uncheck")

\* C15: from every reachable state in which the repository can be called,
\* toggle_completed(Check) followed by toggle_completed(Uncheck) returns with
\* num_active_items = num_all_items, num_completed_items = 0 and no task
\* completed.
C15_CheckThenUncheck ==
    CanCall =>
        LET after == CheckThenUncheck(Repo)
        IN  /\ ~after.panic
            /\ after.self.num_active_items = after.self.num_all_items
            /\ after.self.num_completed_items = U32_ZERO
            /\ KeysFlag(after.self, TRUE) = {}
            /\ DOMAIN after.self.items = DOMAIN items

\* C15's case: toggle_completed(Uncheck) has returned, called on what
\* toggle_completed(Check) leaves of a repository with tasks, and the
\* repository is what the two calls in a row give.
C15_Witness ==
    /\ call.op = "toggle_completed"
    /\ call.action = "Uncheck"
    /\ call.returned
    /\ DOMAIN call.pre.items # {}
    /\ call.pre = toggle_completed(call.pre, "Check").self
    /\ Repo = CheckThenUncheck(call.pre).self


\* ---------------------------------------------------------------------- C16

\* The tasks in the sequence q.
Elems(q) == {q[i] : i \in 1..Len(q)}

\* The stored tasks of self whose flag the filter asks for.
Stored(self, filter) ==
    {self.items[k] : k \in {x \in DOMAIN self.items :
                               \/ filter = "All"
                               \/ filter = "Active" /\ ~self.items[x].is_completed
                               \/ filter = "Completed" /\ self.items[x].is_completed}}

\* C16: list(filter) returns, never with an error, a sequence that holds each
\* stored task matching the filter exactly once and nothing else (the empty
\* sequence when none matches); list(All) is as long as items is large.
C16_ListIsTheMatchingTasks ==
    call.op = "list" =>
        /\ call.returned
        /\ LET todos == unwrap(call.result)
           IN  /\ Elems(todos) = Stored(Repo, call.filter)
               /\ \A i, j \in 1..Len(todos) : todos[i] = todos[j] => i = j
               /\ call.filter = "All" => Len(todos) = Cardinality(DOMAIN items)
               /\ Stored(Repo, call.filter) = {} => todos = <<>>

\* C16's case: list(Completed) has returned a task while an active task is
\* stored too.
C16_Witness ==
    /\ call.op = "list"
    /\ call.filter = "Completed"
    /\ call.returned
    /\ Len(unwrap(call.result)) = 1
    /\ Cardinality(DOMAIN items) = 2

\* ---------------------------------------------------------------------- C17

\* C17: in every reachable state in which the repository can be called, what
\* list(Active) and list(Completed) return have no task in common, and
\* together they hold the tasks of list(All).
C17_ActiveCompletedPartitionAll ==
    CanCall =>
        \A active \in list(Repo, "Active") :
          \A completed \in list(Repo, "Completed") :
            \A all \in list(Repo, "All") :
              /\ Elems(active) \cap Elems(completed) = {}
              /\ Elems(active) \cup Elems(completed) = Elems(all)

\* C17's case: list(Active) has returned a task while a completed task is
\* stored too.
C17_Witness ==
    /\ call.op = "list"
    /\ call.filter = "Active"
    /\ call.returned
    /\ unwrap(call.result) # <<>>
    /\ KeysFlag(Repo, TRUE) # {}


\* ---------------------------------------------------------------------- C18

\* Uuid::new_v4 hands the ids out in increasing order, so the task with the
\* greater id is the one created later.
CreatedAfter(x, y) == x.id > y.id

\* C18 (as claimed): list returns the tasks by created_at descending, and of
\* two tasks the one created later comes before the one created earlier.
C18_NewestFirst ==
    call.op = "list" =>
        /\ call.returned
        /\ LET todos == unwrap(call.result)
           IN  \A i, j \in 1..Len(todos) :
                   i < j => /\ todos[i].created_at >= todos[j].created_at
                            /\ CreatedAfter(todos[i], todos[j])

\* ---------------------------------------------------------------------- C19

C20_Scenario ==
    /\ call.op = "create" /\ issued = ScenarioIds =>
           /\ call.returned
           /\ num_all_items = u32(3)
           /\ num_active_items = u32(3)
           /\ num_completed_items = u32(0)
    /\ call.op = "update" =>
           /\ call.returned
           /\ num_completed_items = u32(1)
           /\ num_active_items = u32(2)
    /\ call.op = "list" /\ call.filter = "Completed" =>
           /\ call.returned
           /\ unwrap(call.result) = <<items[2]>>
    /\ call.op = "delete_completed" =>
           /\ call.returned
           /\ num_all_items = u32(2)
           /\ num_completed_items = u32(0)
    /\ call.op = "list" /\ call.filter = "All" =>
           /\ call.returned
           /\ unwrap(call.result) = <<items[3], items[1]>>


\* ---------------------------------------------------------------------- C21

\* C21: every entry of items is stored under its task's own id, and a call of
\* update, toggle_completed, delete or delete_completed, on whatever id, leaves
\* every task that is there before and after it with the id and the
\* created_at it had.
C21_IdAndCreatedAtKept ==
    /\ \A k \in DOMAIN items : items[k].id = k
    /\ call.op \in {"update", "toggle_completed", "delete", "delete_completed"} =>
           \A k \in DOMAIN items \cap DOMAIN call.pre.items :
               /\ items[k].id = call.pre.items[k].id
               /\ items[k].created_at = call.pre.items[k].created_at

\* C21's case: update has changed the text and the flag of a task while
\* another task is stored.
C21_Witness ==
    /\ CallOnPresent("update")
    /\ call.returned
    /\ Cardinality(DOMAIN items) = 2
    /\ items[call.id].text # call.pre.items[call.id].text
    /\ items[call.id].is_completed # call.pre.items[call.id].is_completed

\* ---------------------------------------------------------------------- C22

\* C22: get and list return and leave items and the three counters as they
\* were; get of a present id returns a task equal to the one stored under it.
C22_GetAndListReadOnly ==
    call.op \in {"get", "list"} =>
        /\ call.returned
        /\ Repo = call.pre
        /\ call.op = "get" /\ call.id \in DOMAIN items =>
               unwrap(call.result) = Ok(items[call.id])

\* C22's case: get has returned a completed task.
C22_Witness ==
    /\ CallOnPresent("get")
    /\ call.returned
    /\ unwrap(call.result).ok
    /\ unwrap(call.result).val.is_completed


\* ------------------------------------------------- reading the responses

\* The handler op has answered a request with status 200.
Answered(op) ==
    /\ call.op = op
    /\ call.returned
    /\ call.status = Some(StatusCode_OK)

\* What the client got from the handler that answered.
Response == unwrap(call.result).val

\* The outcome o of a handler is an answer with status 404.
Is404(o) == ~o.panic /\ into_response(unwrap(o.result)) = StatusCode_NOT_FOUND

\* ---------------------------------------------------------------------- C23

\* C23: edit_todo, update_todo and delete_todo answer 404 exactly when the
\* repository reports NotFound for the id of the path (the call of get, update
\* or delete returns Err(NotFound)), and then the AppState they leave is the
\* one they began in.
C23_NotFoundIs404 ==
    CanCall =>
        \A id \in Uuids :
            /\ \A o \in edit_todo(App, id) :
                   /\ Is404(o) <=> get(Repo, id) = Err(NotFound)
                   /\ Is404(o) => o.state = App
            /\ \A form \in UpdateTodoForms :
                   \A o \in update_todo(App, id, form.text, form.is_completed) :
                       /\ Is404(o) <=>
                              update(Repo, id, form.text, form.is_completed).result
                                  = Some(Err(NotFound))
                       /\ Is404(o) => o.state = App
            /\ \A o \in delete_todo(App, id) :
                   /\ Is404(o) <=> delete(Repo, id).result = Some(Err(NotFound))
                   /\ Is404(o) => o.state = App

\* C23's case: update_todo has answered 404 for an id that is not stored while
\* a task is stored and toggle_action is not what it is at the start.
C23_Witness ==
    /\ call.op = "update_todo"
    /\ call.status = Some(StatusCode_NOT_FOUND)
    /\ call.id \notin DOMAIN items
    /\ DOMAIN items # {}
    /\ toggle_action = "Uncheck"

\* ---------------------------------------------------------------------- C24
\* Task t is inside the critical section of a mutating handler: it has taken
\* the write lock and has not returned.
InCriticalSection(t) == pc[t].at \in {"locked", "mutated"}

\* A mutating handler of lib.rs has answered 200 to the client.
MutatingAnswered ==
    /\ call # Idle
    /\ "task" \in DOMAIN call
    /\ call.op \in MutatingHandlers
    /\ unwrap(call.result).ok

\* C24: in lib.rs, under any interleaving of two requests, a mutating handler
\* (create_todo, update_todo, delete_todo, delete_completed_todos,
\* toggle_completed_todos) holds the write lock from before its repository call
\* until it has read the counters for its response: while it is in between, it
\* is the writer, no task holds a read guard, no other task is inside a handler
\* part that reads or writes the state, and the counters are still those its
\* own repository call left; and the counters of the response it returns are
\* those of the state right after its own mutation.
C24_WriteLockHeld ==
    /\ \A t \in Threads :
          InCriticalSection(t) =>
             /\ lock.writer = Some(t)
             /\ lock.readers = {}
             /\ \A u \in Threads \ {t} : pc[u].at \in {"none", "stored"}
             /\ pc[t].at = "mutated" => pc[t].after = Counters(Repo)
    /\ MutatingAnswered => Counters(unwrap(call.result).val) = call.after

\* A mutating handler has answered 200 with counters that its own mutation
\* changed, while the other task was in the middle of list_todos (between
\* storing the filter and taking the read lock).
C24_Witness ==
    /\ MutatingAnswered
    /\ call.after # Counters(TodoRepo_default)
    /\ \E u \in Threads \ {call.task} : pc[u].at = "stored"

\* ---------------------------------------------------------------------- C25
\* len(todos) == num_all_items, the counter read as a number
SizeIsNumAll == u32(Cardinality(DOMAIN items)) = num_all_items

\* Task t's update_todo has looked its task up and has not yet written.
UpdateTodoFound(t) == pc[t].at = "found"

\* C25: in main.rs, under any interleaving with a concurrent delete_todo or
\* delete_completed_todo, update_todo's lookup, counter adjustment and
\* write-back are one critical section: the step in which update_todo writes
\* its task back adds no entry to todos (the task it looked up is still
\* there), and it leaves the number of entries equal to num_all_items when it
\* was so before.
C25_UpdateTodoAtomic ==
    [][\A t \in Threads :
          UpdateTodoFound(t) /\ pc'[t] = NoRequest =>
             /\ DOMAIN items' \subseteq DOMAIN items
             /\ SizeIsNumAll => SizeIsNumAll']_vars

\* ---------------------------------------------------------------------- C26

\* C26: when update_todo has answered 200, toggle_action is Uncheck if
\* num_completed_items = num_all_items and Check otherwise, and the response
\* holds the updated item exactly when it matches selected_filter (All:
\* always, Active: when not completed, Completed: when completed).
C26_UpdateTodo ==
    Answered("update_todo") =>
        /\ toggle_action = IF num_completed_items = num_all_items THEN "Uncheck" ELSE "Check"
        /\ Response.item =
               IF \/ selected_filter = "All"
                  \/ selected_filter = "Active" /\ ~items[call.id].is_completed
                  \/ selected_filter = "Completed" /\ items[call.id].is_completed
               THEN Some(items[call.id]) ELSE None

\* C26's case: update_todo has answered 200 without the item, which it
\* completed while the filter is Active, and has set toggle_action to Uncheck.
C26_Witness ==
    /\ Answered("update_todo")
    /\ selected_filter = "Active"
    /\ items[call.id].is_completed
    /\ Response.item = None
    /\ toggle_action = "Uncheck"

\* ---------------------------------------------------------------------- C27

\* C27: when toggle_completed_todos has run with action A, toggle_action is
\* the opposite of A, every task's is_completed is (A = Check), the response
\* lists the tasks that match selected_filter, its delete button is disabled
\* iff num_completed_items = 0 and its toggle button iff num_all_items = 0.
C27_ToggleCompletedTodos ==
    call.op = "toggle_completed_todos" =>
        /\ Answered("toggle_completed_todos")
        /\ toggle_action # call.action
        /\ toggle_action \in TodoToggleAction
        /\ \A k \in DOMAIN items : items[k].is_completed = (call.action = "Check")
        /\ Response.items \in list(Repo, selected_filter)
        /\ Elems(Response.items) = Stored(Repo, selected_filter)
        /\ Response.is_disabled_delete <=> num_completed_items = U32_ZERO
        /\ Response.is_disabled_toggle <=> num_all_items = U32_ZERO

\* C27's case: toggle_completed_todos has run with Check on two tasks while
\* the filter is Completed, and lists both.
C27_Witness ==
    /\ Answered("toggle_completed_todos")
    /\ call.action = "Check"
    /\ selected_filter = "Completed"
    /\ Len(Response.items) = 2

\* ---------------------------------------------------------------------- C28

\* C28: when delete_completed_todos has run, toggle_action is Check, the
\* response lists exactly the remaining tasks that match selected_filter, its
\* delete button, disabled in the code, agrees with the state
\* (num_completed_items = 0 and no task left is completed), and its toggle
\* button is disabled iff num_all_items = 0.
C28_DeleteCompletedTodos ==
    call.op = "delete_completed_todos" =>
        /\ Answered("delete_completed_todos")
        /\ toggle_action = "Check"
        /\ Response.items \in list(Repo, selected_filter)
        /\ Elems(Response.items) = Stored(Repo, selected_filter)
        /\ Response.is_disabled_delete
        /\ num_completed_items = U32_ZERO
        /\ KeysFlag(Repo, TRUE) = {}
        /\ Response.is_disabled_toggle <=> num_all_items = U32_ZERO

\* C28's case: delete_completed_todos has run while toggle_action was Uncheck
\* and has left a task, which it lists.
C28_Witness ==
    /\ Answered("delete_completed_todos")
    /\ Len(Response.items) = 1
    /\ ~Response.is_disabled_toggle
    /\ call.before = "Uncheck"

\* ---------------------------------------------------------------------- C29

\* C29: when delete_todo has answered 200, toggle_action is Check if
\* num_all_items = 0 and Uncheck otherwise, the delete button of the response
\* is disabled iff num_completed_items = 0 and its toggle button iff
\* num_all_items = 0.
C29_DeleteTodo ==
    Answered("delete_todo") =>
        /\ toggle_action = IF num_all_items = U32_ZERO THEN "Check" ELSE "Uncheck"
        /\ Response.action = toggle_action
        /\ Response.is_disabled_delete <=> num_completed_items = U32_ZERO
        /\ Response.is_disabled_toggle <=> num_all_items = U32_ZERO

\* C29's case: delete_todo has removed one of two tasks and answered with the
\* action Uncheck and the toggle button enabled.
C29_Witness ==
    /\ Answered("delete_todo")
    /\ Cardinality(DOMAIN items) = 1
    /\ Response.action = "Uncheck"
    /\ ~Response.is_disabled_toggle

\* ---------------------------------------------------------------------- C30

\* C30 (as claimed): when create_todo has run, toggle_action is Check, the
\* response holds the new item unless selected_filter is Completed, and its
\* toggle button, enabled in the code, agrees with the state: num_all_items
\* is greater than 0.
C30_CreateTodo ==
    call.op = "create_todo" =>
        /\ Answered("create_todo")
        /\ toggle_action = "Check"
        /\ Response.item = IF selected_filter = "Completed" THEN None
                           ELSE Some(items[call.id])
        /\ ~Response.is_disabled_toggle
        /\ num_all_items # U32_ZERO

\* ---------------------------------------------------------------------- C31

\* C31: list_todos never fails; it leaves an AppState that differs from the one
\* it began in by selected_filter alone, which is the request's filter; when it
\* has run, its response lists each stored task that matches the request's
\* filter once and nothing else, its toggle button is disabled iff
\* num_all_items = 0 and its delete button iff num_completed_items = 0.
C31_ListTodos ==
    /\ CanCall =>
          \A filter \in TodoListFilter : \A o \in list_todos(App, filter) :
             /\ ~o.panic
             /\ unwrap(o.result).ok
             /\ o.state = [App EXCEPT !.selected_filter = filter]
    /\ call.op = "list_todos" =>
          /\ Answered("list_todos")
          /\ selected_filter = call.filter
          /\ Elems(Response.items) = Stored(Repo, call.filter)
          /\ Len(Response.items) = Cardinality(Stored(Repo, call.filter))
          /\ Response.is_disabled_toggle <=> num_all_items = U32_ZERO
          /\ Response.is_disabled_delete <=> num_completed_items = U32_ZERO

\* C31's case: list_todos has run with the filter Completed on two tasks of
\* which one is completed, and lists that one.
C31_Witness ==
    /\ Answered("list_todos")
    /\ call.filter = "Completed"
    /\ Cardinality(DOMAIN items) = 2
    /\ Len(Response.items) = 1

\* ---------------------------------------------------------------------- C32

\* C32: when no update passes the flag a task already has, no call aborts (with
\* overflow checks every subtraction from too small a counter aborts), and in
\* every state num_all_items is the number of tasks, num_completed_items the
\* number of completed tasks and num_active_items the number of active ones
\* (without overflow checks a subtraction from too small a counter leaves a
\* counter that is none of these numbers).
C32_ChangingUpdatesKeepCounters ==
    /\ ~panicked
    /\ num_all_items = u32(Cardinality(DOMAIN items))
    /\ num_completed_items = u32(CountFlag(Repo, TRUE))
    /\ num_active_items = u32(CountFlag(Repo, FALSE))

\* C32's case: of two tasks, one completed, an update has made the completed
\* one active again (num_completed_items -= 1 from 1).
C32_Witness ==
    /\ call.op = "update"
    /\ call.returned
    /\ call.is_completed = Some(FALSE)
    /\ call.id \in DOMAIN call.pre.items
    /\ call.pre.num_completed_items = u32(1)
    /\ Cardinality(DOMAIN items) = 2

\* ---------------------------------------------------------------------- C33

\* C33 (as claimed): in every AppState the lib.rs handlers reach, when no
\* handler has aborted, toggle_action is Uncheck only if there is a task and
\* every task is completed.
C33_UncheckOnlyWhenAllCompleted ==
    ~panicked /\ toggle_action = "Uncheck" =>
        /\ DOMAIN items # {}
        /\ \A k \in DOMAIN items : items[k].is_completed

\* ---------------------------------------------------------------------- C34

\* The two per-flag counters of self are the numbers of its completed and of
\* its active tasks.
FlagCountersInSync(self) ==
    /\ self.num_completed_items = u32(CountFlag(self, TRUE))
    /\ self.num_active_items = u32(CountFlag(self, FALSE))

\* C34: when toggle_completed (Check or Uncheck) has returned from a state in
\* which num_all_items was the number of tasks, num_completed_items is the
\* number of completed tasks and num_active_items the number of active ones,
\* whatever the two counters were before.
C34_ToggleResynchronises ==
    /\ call.op = "toggle_completed"
    /\ call.returned
    /\ call.pre.num_all_items = u32(Cardinality(DOMAIN call.pre.items))
    => FlagCountersInSync(Repo)

\* C34's case: toggle_completed has returned from a state with a task in which
\* num_all_items was the number of tasks and the per-flag counters were not the
\* per-flag counts.
C34_Witness ==
    /\ call.op = "toggle_completed"
    /\ call.returned
    /\ DOMAIN call.pre.items # {}
    /\ call.pre.num_all_items = u32(Cardinality(DOMAIN call.pre.items))
    /\ ~FlagCountersInSync(call.pre)

\* ---------------------------------------------------------------------- C35

\* The repositories x and y hold the same tasks (same ids, each with the same
\* text and is_completed) and the same three counters.
SameRepository(x, y) ==
    /\ DOMAIN x.items = DOMAIN y.items
    /\ \A k \in DOMAIN x.items :
          /\ x.items[k].text = y.items[k].text
          /\ x.items[k].is_completed = y.items[k].is_completed
    /\ SameCounters(x, y)

\* Every outcome of the lib.rs handler (ls) and every outcome of the main.rs
\* handler (ms) for the same request abort alike and leave the same
\* repository.
Agree(ls, ms) ==
    \A l \in ls, m \in ms :
       /\ l.panic = m.panic
       /\ ~l.panic => SameRepository(l.state.todo_repo, m.state.todo_repo)

\* The main.rs server with the repository of the lib.rs server (the requests
\* so far have left the same repository in both) and any filter and toggle
\* action (main.rs does not always store the ones lib.rs stores).
MainApps ==
    {[selected_filter |-> f, toggle_action |-> a, todo_repo |-> Repo] :
        f \in TodoListFilter, a \in TodoToggleAction}

\* C35 (as claimed): the two servers begin with the same repository, and from
\* the same repository the same request leaves the same repository in both
\* (so after every request of a sequence the repositories are the same): for
\* create, update, delete, delete-completed, toggle and list.
C35_SameRepositoryAsMain ==
    CanCall =>
       \A M \in MainApps :
          /\ AppState_default.todo_repo = TodoRepo_default
          /\ issued # Uuids =>
                \A text \in Texts :
                   Agree(create_todo(App, text, now + 1, new_v4),
                         {main_create_todo(M, text, now + 1, new_v4)})
          /\ \A id \in Uuids, form \in UpdateTodoForms :
                Agree(update_todo(App, id, form.text, form.is_completed),
                      {main_update_todo(M, id, form.text, form.is_completed)})
          /\ \A id \in Uuids :
                Agree(delete_todo(App, id), {main_delete_todo(M, id)})
          /\ Agree(delete_completed_todos(App), main_delete_completed_todo(M))
          /\ \A action \in TodoToggleAction :
                Agree(toggle_completed_todos(App, action),
                      main_toggle_completed_todo(M, action))
          /\ \A filter \in TodoListFilter :
                Agree(list_todos(App, filter), main_list_todo(M, filter))

\* ---------------------------------------------------------------------- C36

\* list_todos has answered a request served next to another task's.
ListTodosAnswered ==
    /\ call # Idle
    /\ "task" \in DOMAIN call
    /\ call.op = "list_todos"

\* C36: in list_todos of lib.rs, the task holds no guard between storing the
\* filter and taking the read lock; from taking the read lock to its return it
\* holds a read guard and nobody writes, so the listing it has read is still a
\* listing of the stored tasks when it reads the counters; and the response it
\* returns holds a listing, by the request's own filter, of the tasks of the
\* state its three counters are read from, exactly the stored tasks that match
\* the request's filter, whatever selected_filter has become.
C36_ListTodosReadsOneState ==
    /\ \A t \in Threads :
          /\ pc[t].at = "stored" => t \notin lock.readers /\ lock.writer # Some(t)
          /\ pc[t].at \in {"reading", "listed"} =>
                /\ t \in lock.readers
                /\ lock.writer = None
          /\ pc[t].at = "listed" => pc[t].todos \in list(Repo, pc[t].filter)
    /\ ListTodosAnswered =>
          /\ Response.items \in list(Repo, call.filter)
          /\ Elems(Response.items) = Stored(Repo, call.filter)
          /\ Counters(Response) = Counters(Repo)

\* C36's case: list_todos has answered a request for the active tasks with the
\* one active task of two, after another request ran between its two guards
\* and stored the filter Completed.
C36_Witness ==
    /\ ListTodosAnswered
    /\ call.filter = "Active"
    /\ selected_filter = "Completed"
    /\ Cardinality(DOMAIN items) = 2
    /\ Len(Response.items) = 1

\* ---------------------------------------------------------------------- C37

\* Task t holds a guard on the lock.
HoldsGuard(t) == lock.writer = Some(t) \/ t \in lock.readers

\* Task t is about to ask for the lock: it runs no handler (each handler begins
\* by asking for it), or it is in list_todos before the read lock.
AsksForLock(t) == pc[t].at \in {"none", "stored"}

\* Task t is inside a handler.
InHandler(t) == pc[t].at # "none"

\* C37: in lib.rs, under any interleaving of two requests, a task that is about
\* to ask for the lock holds no guard on it; as long as no handler has aborted,
\* some task can take a step (no deadlock); and with fair scheduling of the
\* tasks and of the lock, every task inside a handler gets to the end of the
\* handler, with no guard held, unless a handler aborts.
C37_NoDeadlock ==
    /\ [](\A t \in Threads : AsksForLock(t) => ~HoldsGuard(t))
    /\ [](~panicked => ENABLED ServerFairNext)
    /\ \A t \in Threads :
          InHandler(t) ~> ((~InHandler(t) /\ ~HoldsGuard(t)) \/ panicked)

\* C37's case: a task is in list_todos between its two guards and has to wait
\* for the read lock, because the other task holds the write guard.
C37_Witness ==
    \E t \in Threads, u \in Threads :
       /\ t # u
       /\ pc[t].at = "stored"
       /\ lock.writer = Some(u)
       /\ pc[u].at = "mutated"

\* ---------------------------------------------------------------------- C38

====
